---- MODULE Spec2Model ----
(***************************************************************************)
(* The solitaire engine: Card / Pile / DeckConfig, the GameRules           *)
(* capability set with its four variants (Klondike, FreeCell, Fortune's    *)
(* Foundation, Sawayama) and the Game orchestrator.                        *)
(*                                                                         *)
(* A card is a number: its place in the list DeckConfig.createDeck()       *)
(* builds.  A pile is a record [type, index, cards]; a pile is referred to *)
(* by its place in Game.piles (move records hold such references).  The    *)
(* face state lives on the card object, so it is one function over the     *)
(* cards: a card reachable from two piles has one face state.              *)
(*                                                                         *)
(* The decks are scaled: NumRanks ranks per suit instead of 13, NumMajor   *)
(* major arcana instead of 22, and the deal tables are the source's tables *)
(* written as functions of the deck size and the tableau pile count (with  *)
(* 13 ranks and 7 / 8 / 11 tableau piles they are the source's numbers).   *)
(* NumSuits suits (and as many suit foundations) stand for the source's 4,  *)
(* NumFreeCells free cells for FreeCell's 4.                               *)
(***************************************************************************)
EXTENDS Integers, Sequences, FiniteSets, TLC

\* ------------------------------------------------------------------ bounds
NumSuits == 2
NumRanks == 3
NumMajor == 2
NumTableau == 2
NumFreeCellTableau == 2
NumTarotTableau == 3
NumFreeCells == 2
NumShuffles == 2
MaxMoves == 2
MaxSingleMoves == 3
MaxCardsLimit == 2
MaxPileCards == 4
MaxCount == 3
MaxHybridMoves == 3

\* ------------------------------------------------------ program constants
FoundationPoints == 10
TableauPoints == 1
FreeCellPoints == 0
MaximumScore == 1000
SawayamaFreeCellCount == 1
TarotFreeCellCount == 1
KlondikeCardsPerDraw == 1
SawayamaCardsPerDraw == 3

Variants == {"klondike", "freecell", "tarot", "sawayama"}

VARIABLES
    variant,      \* which GameRules / DeckConfig pair the Game was built with
    cards,        \* Game.cards: the master list, in shuffled order
    piles,        \* Game.piles: sequence of [type, index, cards]
    faceUp,       \* card.isFaceUp of every card object
    score,        \* Game.score
    moves,        \* Game.moves: the move log
    gameStarted,  \* Game.gameStarted
    gameWon,      \* Game.gameWon
    debugMode,    \* Game.debugMode
    loosePile,    \* a Pile constructed outside a Game: [type, index, cards, maxCards]
    position      \* card.position of every card object

gameVars == <<cards, piles, faceUp, score, moves, gameStarted, gameWon, debugMode>>
vars == <<variant, cards, piles, faceUp, score, moves, gameStarted, gameWon, debugMode,
         loosePile, position>>

\* ------------------------------------------------------------- sequences
Range(s) == {s[i] : i \in 1..Len(s)}

RECURSIVE SumSeq(_)
SumSeq(s) == IF s = <<>> THEN 0 ELSE Head(s) + SumSeq(Tail(s))

Min(a, b) == IF a < b THEN a ELSE b

Abs(x) == IF x < 0 THEN 0 - x ELSE x

\* ------------------------------------------------------------- the decks
StandardSuits == <<"spades", "hearts", "diamonds", "clubs">>
MinorSuits == <<"wands", "cups", "swords", "pentacles">>

IsTarot(v) == v = "tarot"

\* DeckConfig.deckSize
DeckSize(v) == IF IsTarot(v) THEN NumSuits * NumRanks + NumMajor
               ELSE NumSuits * NumRanks

\* createDeck(): suit-major, rank-minor, then the major arcana
CreateDeck(v) == [i \in 1..DeckSize(v) |-> i]

AllCards == 1..(NumSuits * NumRanks + NumMajor)

isMajorArcana(c) == IsTarot(variant) /\ c > NumSuits * NumRanks
isMinorArcana(c) == IsTarot(variant) /\ c <= NumSuits * NumRanks

CardSuit(c) ==
    IF isMajorArcana(c) THEN "major"
    ELSE IF IsTarot(variant) THEN MinorSuits[((c - 1) \div NumRanks) + 1]
    ELSE StandardSuits[((c - 1) \div NumRanks) + 1]

CardRank(c) ==
    IF isMajorArcana(c) THEN c - NumSuits * NumRanks - 1
    ELSE ((c - 1) % NumRanks) + 1

\* Card.getSuitColor for the standard suits (and KlondikeRules.getSuitColor)
getSuitColor(c) == IF CardSuit(c) \in {"hearts", "diamonds"} THEN "red" ELSE "black"

\* ------------------------------------------------------------- shuffling
\* Fisher-Yates can produce every permutation; the model draws from a
\* family of NumShuffles of them: the k-fold riffle of the list, k >= 0.
Riffle(s) ==
    LET n == Len(s)
        h == n \div 2
    IN [i \in 1..n |-> IF i % 2 = 1 THEN s[h + (i + 1) \div 2] ELSE s[i \div 2]]

RECURSIVE RiffleTimes(_, _)
RiffleTimes(s, k) == IF k = 0 THEN s ELSE RiffleTimes(Riffle(s), k - 1)

ShuffleOutcomes(s) == {RiffleTimes(s, k) : k \in 0..(NumShuffles - 1)}

\* ----------------------------------------------------------------- piles
PileIds == 1..Len(piles)

PilesOfType(ps, type) == {p \in 1..Len(ps) : ps[p].type = type}

\* the pile of a type with a given index (0-based, as Pile.index), 0 if none
PileAt(ps, type, index) ==
    IF \E p \in 1..Len(ps) : ps[p].type = type /\ ps[p].index = index
    THEN CHOOSE p \in 1..Len(ps) : ps[p].type = type /\ ps[p].index = index
    ELSE 0

isEmpty(ps, p) == Len(ps[p].cards) = 0

\* Pile.getTopCard: 0 stands for null
getTopCard(ps, p) == IF Len(ps[p].cards) > 0 THEN ps[p].cards[Len(ps[p].cards)] ELSE 0

\* Pile.addCard (Game creates every pile without maxCards)
addCard(ps, p, c) == [ps EXCEPT ![p].cards = Append(@, c)]

\* Pile.removeTopCard on a non-empty pile
removeTopCard(ps, p) == [ps EXCEPT ![p].cards = SubSeq(@, 1, Len(@) - 1)]

RECURSIVE addCards(_, _, _)
addCards(ps, p, cs) ==
    IF cs = <<>> THEN ps ELSE addCards(addCard(ps, p, Head(cs)), p, Tail(cs))

TotalCards(ps) == SumSeq([p \in 1..Len(ps) |-> Len(ps[p].cards)])

\* ------------------------------------------------------------ DeckConfig
\* new DeckConfig(suits, ranks, wildCards, deckSize): deckSize 0 stands for
\* null, which `deckSize || ...` treats alike
DeckConfig(suits, ranks, wildCards, deckSize) ==
    [suits |-> suits, ranks |-> ranks, wildCards |-> wildCards,
     deckSize |-> IF deckSize = 0
                  THEN Len(suits) * Len(ranks) + Len(wildCards)
                  ELSE deckSize]

\* new StandardDeck(): super(suits, ranks)
StandardDeck ==
    DeckConfig(SubSeq(StandardSuits, 1, NumSuits), [i \in 1..NumRanks |-> i], <<>>, 0)

\* new TarotDeck(): super(minorSuits, minorRanks, [], 74), the size of the
\* minor and major arcana together
TarotDeck ==
    DeckConfig(SubSeq(MinorSuits, 1, NumSuits), [i \in 1..NumRanks |-> i], <<>>,
               NumSuits * NumRanks + NumMajor)

\* the deckConfig the Game of a variant is constructed with
GameDeckConfig(v) == IF IsTarot(v) THEN TarotDeck ELSE StandardDeck

\* DeckConfig.validate(): throws for a deck without suits or ranks, and
\* otherwise returns true, with a console warning when the sizes differ
validate(d) ==
    IF Len(d.suits) = 0 THEN [threw |-> TRUE, warned |-> FALSE, result |-> FALSE]
    ELSE IF Len(d.ranks) = 0 THEN [threw |-> TRUE, warned |-> FALSE, result |-> FALSE]
    ELSE [threw |-> FALSE,
          warned |-> d.deckSize # Len(d.suits) * Len(d.ranks) + Len(d.wildCards),
          result |-> TRUE]

\* ------------------------------------------------------- the Pile class
\* card.position === null
NullPosition == [pile |-> "null", index |-> 0, cardIndex |-> 0]

NoPositions == [c \in AllCards |-> NullPosition]

\* new Pile(type, index, maxCards): maxCards is <<>> for null and <<n>> for
\* the number n
Pile(type, index, maxCards) ==
    [type |-> type, index |-> index, cards |-> <<>>, maxCards |-> maxCards]

\* the truthiness of this.maxCards: null and 0 are falsy
hasMaxCards(p) == p.maxCards # <<>> /\ p.maxCards[1] # 0

\* Pile.isFull
Pile_isFull(p) == IF hasMaxCards(p) THEN Len(p.cards) >= p.maxCards[1] ELSE FALSE

\* the outcome of a call on a Pile: the pile and the cards' positions after
\* it, whether it threw, and what it returned (0 when it returns nothing)
PileOutcome(p, pos, threw, result) ==
    [pile |-> p, position |-> pos, threw |-> threw, result |-> result]

\* Pile.addCard(card)
Pile_addCard(p, pos, card) ==
    IF hasMaxCards(p) /\ Len(p.cards) >= p.maxCards[1]
    THEN PileOutcome(p, pos, TRUE, 0)
    ELSE PileOutcome([p EXCEPT !.cards = Append(@, card)],
                 [pos EXCEPT ![card] = [pile |-> p.type, index |-> p.index,
                                        cardIndex |-> Len(p.cards)]],
                 FALSE, 0)

\* Pile.addCards(cards): cards.forEach(card => this.addCard(card)); the cards
\* before the one that throws stay added
RECURSIVE Pile_addCards(_, _, _)
Pile_addCards(p, pos, cs) ==
    IF cs = <<>>
    THEN PileOutcome(p, pos, FALSE, 0)
    ELSE LET r == Pile_addCard(p, pos, Head(cs))
         IN IF r.threw THEN r ELSE Pile_addCards(r.pile, r.position, Tail(cs))

\* Pile.removeTopCard()
Pile_removeTopCard(p, pos) ==
    IF Len(p.cards) = 0
    THEN PileOutcome(p, pos, TRUE, 0)
    ELSE LET card == p.cards[Len(p.cards)]
         IN PileOutcome([p EXCEPT !.cards = SubSeq(@, 1, Len(@) - 1)],
                    [pos EXCEPT ![card] = NullPosition],
                    FALSE, card)

\* the loop of Pile.removeTopCards: removedCards.unshift(this.removeTopCard())
RECURSIVE removeTopCardsLoop(_, _, _, _)
removeTopCardsLoop(p, pos, count, removedCards) ==
    IF count = 0
    THEN PileOutcome(p, pos, FALSE, removedCards)
    ELSE LET r == Pile_removeTopCard(p, pos)
         IN IF r.threw
            THEN r
            ELSE removeTopCardsLoop(r.pile, r.position, count - 1,
                                    <<r.result>> \o removedCards)

\* the same loop with push in the place of unshift
RECURSIVE removeTopCardsLoop_Push(_, _, _, _)
removeTopCardsLoop_Push(p, pos, count, removedCards) ==
    IF count = 0
    THEN PileOutcome(p, pos, FALSE, removedCards)
    ELSE LET r == Pile_removeTopCard(p, pos)
         IN IF r.threw
            THEN r
            ELSE removeTopCardsLoop_Push(r.pile, r.position, count - 1,
                                         Append(removedCards, r.result))

Pile_removeTopCards_Push(p, pos, count) ==
    IF count > Len(p.cards)
    THEN PileOutcome(p, pos, TRUE, <<>>)
    ELSE removeTopCardsLoop_Push(p, pos, count, <<>>)

\* Pile.removeTopCards(count)
Pile_removeTopCards(p, pos, count) ==
    IF count > Len(p.cards)
    THEN PileOutcome(p, pos, TRUE, <<>>)
    ELSE removeTopCardsLoop(p, pos, count, <<>>)

\* Pile.clear(): every card of the pile gets position null, the array is
\* replaced by an empty one
Pile_clear(p, pos) ==
    PileOutcome([p EXCEPT !.cards = <<>>],
                [c \in AllCards |-> IF c \in Range(p.cards) THEN NullPosition ELSE pos[c]],
                FALSE, 0)

\* the forEach that closes Pile.shuffle: the card at each index, in index
\* order, gets that index as its cardIndex
updatePositions(p, pos) ==
    [c \in AllCards |->
        IF c \in Range(p.cards)
        THEN [pile |-> p.type, index |-> p.index,
              cardIndex |-> (CHOOSE i \in 1..Len(p.cards) :
                                /\ p.cards[i] = c
                                /\ \A j \in (i + 1)..Len(p.cards) : p.cards[j] # c) - 1]
        ELSE pos[c]]

\* Pile.shuffle(): every outcome of the Fisher-Yates loop, then the positions
Pile_shuffle(p, pos) ==
    {LET q == [p EXCEPT !.cards = order]
     IN PileOutcome(q, updatePositions(q, pos), FALSE, 0) :
        order \in ShuffleOutcomes(p.cards)}

\* ----------------------------------------------------- pile configuration
TableauPileCount(v) ==
    CASE v = "klondike" -> NumTableau
      [] v = "sawayama" -> NumTableau
      [] v = "freecell" -> NumFreeCellTableau
      [] v = "tarot" -> NumTarotTableau

FoundationPileCount(v) == IF IsTarot(v) THEN NumSuits + 2 ELSE NumSuits

\* getPileConfiguration(): the created pile types, in the order of the keys
getPileConfiguration(v) ==
    CASE v = "klondike" ->
           << <<"foundation", FoundationPileCount(v)>>, <<"tableau", TableauPileCount(v)>>,
              <<"stock", 1>>, <<"waste", 1>> >>
      [] v = "freecell" ->
           << <<"foundation", FoundationPileCount(v)>>, <<"tableau", TableauPileCount(v)>>,
              <<"freecell", NumFreeCells>> >>
      [] v = "tarot" ->
           << <<"foundation", FoundationPileCount(v)>>, <<"tableau", TableauPileCount(v)>>,
              <<"freecell", TarotFreeCellCount>> >>
      [] v = "sawayama" ->
           << <<"foundation", FoundationPileCount(v)>>, <<"tableau", TableauPileCount(v)>>,
              <<"stock", 1>>, <<"waste", 1>>, <<"freecell", SawayamaFreeCellCount>> >>

RECURSIVE createPilesFrom(_)
createPilesFrom(cfg) ==
    IF cfg = <<>> THEN <<>>
    ELSE [i \in 1..Head(cfg)[2] |-> [type |-> Head(cfg)[1], index |-> i - 1, cards |-> <<>>]]
         \o createPilesFrom(Tail(cfg))

createPiles(v) == createPilesFrom(getPileConfiguration(v))

\* ----------------------------------------------------------- deal pattern
\* dealPattern.piles: the pile types dealt to, in order
DealPileTypes(v) ==
    CASE v = "klondike" -> <<"tableau", "foundation", "stock", "waste">>
      [] v = "freecell" -> <<"tableau", "foundation", "freecell">>
      [] v = "tarot" -> <<"tableau", "foundation", "freecell">>
      [] v = "sawayama" -> <<"tableau", "foundation", "stock", "waste", "freecell">>

\* Klondike / Sawayama tableau: cardsPerPile [1, 2, ..., piles]
StairCounts(n) == [i \in 1..n |-> i]

\* FreeCell tableau: the deck dealt out evenly, the first piles one longer
\* (52 cards over 8 piles: [7, 7, 7, 7, 6, 6, 6, 6])
EvenCounts(total, n) ==
    [i \in 1..n |-> (total \div n) + (IF i <= total % n THEN 1 ELSE 0)]

\* Fortune's Foundation tableau: the middle pile stays empty, the other piles
\* share the cards that are not redirected (70 cards over 11 piles:
\* [7, 7, 7, 7, 7, 0, 7, 7, 7, 7, 7])
TarotCounts(total, n) ==
    LET mid == ((n - 1) \div 2) + 1
        even == EvenCounts(total, n - 1)
    IN [i \in 1..n |-> IF i = mid THEN 0 ELSE IF i < mid THEN even[i] ELSE even[i - 1]]

NoDeal(n) == [piles |-> n, cardsPerPile |-> [i \in 1..n |-> 0],
              faceUp |-> [i \in 1..n |-> FALSE], topOnly |-> FALSE,
              aceRedirection |-> FALSE]

\* dealPattern[pileType]
getDealPattern(v, type) ==
    LET t == TableauPileCount(v)
        stair == [piles |-> t, cardsPerPile |-> StairCounts(t),
                  faceUp |-> [i \in 1..t |-> TRUE], topOnly |-> FALSE,
                  aceRedirection |-> FALSE]
        stock == [piles |-> 1,
                  cardsPerPile |-> <<DeckSize(v) - SumSeq(StairCounts(t))>>,
                  faceUp |-> <<FALSE>>, topOnly |-> FALSE, aceRedirection |-> FALSE]
    IN CASE v = "klondike" ->
              (CASE type = "tableau" -> [stair EXCEPT !.topOnly = TRUE]
                 [] type = "foundation" -> NoDeal(NumSuits)
                 [] type = "stock" -> stock
                 [] type = "waste" -> NoDeal(1)
                 [] OTHER -> NoDeal(0))
         [] v = "sawayama" ->
              (CASE type = "tableau" -> stair
                 [] type = "foundation" -> NoDeal(NumSuits)
                 [] type = "stock" -> stock
                 [] type = "waste" -> NoDeal(1)
                 [] type = "freecell" -> NoDeal(SawayamaFreeCellCount)
                 [] OTHER -> NoDeal(0))
         [] v = "freecell" ->
              (CASE type = "tableau" ->
                      [piles |-> t, cardsPerPile |-> EvenCounts(DeckSize(v), t),
                       faceUp |-> [i \in 1..t |-> TRUE], topOnly |-> FALSE,
                       aceRedirection |-> FALSE]
                 [] type = "foundation" -> NoDeal(NumSuits)
                 [] type = "freecell" -> NoDeal(NumFreeCells)
                 [] OTHER -> NoDeal(0))
         [] v = "tarot" ->
              (CASE type = "tableau" ->
                      [piles |-> t,
                       cardsPerPile |-> TarotCounts(DeckSize(v) - NumSuits, t),
                       faceUp |-> [i \in 1..t |-> TRUE], topOnly |-> FALSE,
                       aceRedirection |-> TRUE]
                 [] type = "foundation" ->
                      [NoDeal(NumSuits + 2) EXCEPT !.faceUp = [i \in 1..(NumSuits + 2) |-> TRUE]]
                 [] type = "freecell" ->
                      [NoDeal(TarotFreeCellCount) EXCEPT !.faceUp = <<TRUE>>]
                 [] OTHER -> NoDeal(0))

\* ---------------------------------------------------------------- dealing
\* targetPiles[n] of piles.filter(p => p.type === type), 0 if there is none
NthPileOfType(ps, type, n) ==
    LET of == {p \in 1..Len(ps) : ps[p].type = type}
        at == {p \in of : Cardinality({q \in of : q < p}) = n}
    IN IF at = {} THEN 0 ELSE CHOOSE p \in at : TRUE

\* shouldRedirectCard: condition 'isMinorArcana() && rank === 1'
shouldRedirectCard(c) == isMinorArcana(c) /\ CardRank(c) = 1

\* suitMapping of the ace redirection: wands 0, cups 1, swords 2, pentacles 3
suitMapping(c) == (c - 1) \div NumRanks

\* redirectCardToFoundation: the foundation pile the card goes to, 0 = failure
redirectTarget(ps, c) ==
    IF suitMapping(c) < Cardinality(PilesOfType(ps, "foundation"))
    THEN NthPileOfType(ps, "foundation", suitMapping(c))
    ELSE 0

\* dealToPileType: st = [piles, faceUp, cardIndex]; pileIndex and dealt are
\* the loop counters of the two nested loops
RECURSIVE dealLoop(_, _, _, _, _, _)
dealLoop(st, deck, type, cfg, pileIndex, dealt) ==
    IF pileIndex >= cfg.piles THEN st
    ELSE
      LET target == NthPileOfType(st.piles, type, pileIndex)
          want == IF pileIndex + 1 <= Len(cfg.cardsPerPile)
                  THEN cfg.cardsPerPile[pileIndex + 1] ELSE 0
          faceUpForThisPile == IF pileIndex + 1 <= Len(cfg.faceUp)
                               THEN cfg.faceUp[pileIndex + 1] ELSE FALSE
      IN IF target = 0 \/ dealt >= want
         THEN dealLoop(st, deck, type, cfg, pileIndex + 1, 0)
         ELSE IF st.cardIndex >= Len(deck)
         THEN st
         ELSE
           LET c == deck[st.cardIndex + 1]
               redirected == cfg.aceRedirection /\ shouldRedirectCard(c)
                             /\ redirectTarget(st.piles, c) # 0
               isFaceUp == IF cfg.topOnly THEN dealt = want - 1 ELSE faceUpForThisPile
           IN IF redirected
              THEN dealLoop([piles |-> addCard(st.piles, redirectTarget(st.piles, c), c),
                             faceUp |-> [st.faceUp EXCEPT ![c] = TRUE],
                             cardIndex |-> st.cardIndex + 1],
                            deck, type, cfg, pileIndex, dealt)
              ELSE dealLoop([piles |-> addCard(st.piles, target, c),
                             faceUp |-> [st.faceUp EXCEPT ![c] = isFaceUp],
                             cardIndex |-> st.cardIndex + 1],
                            deck, type, cfg, pileIndex, dealt + 1)

\* dealToPileType that does not look at faceUpPositions
dealToPileType_IgnoresFaceUpPositions(st, deck, v, type) ==
    dealLoop(st, deck, type, [getDealPattern(v, type) EXCEPT !.topOnly = FALSE], 0, 0)

dealToPileType(st, deck, v, type) ==
    dealLoop(st, deck, type, getDealPattern(v, type), 0, 0)

\* dealInitialCards: the 'sequential' walk over dealPattern.piles
RECURSIVE dealTypes(_, _, _, _)
dealTypes(st, deck, v, types) ==
    IF types = <<>> THEN st
    ELSE IF getDealPattern(v, Head(types)).piles = 0
    THEN dealTypes(st, deck, v, Tail(types))
    ELSE dealTypes(dealToPileType(st, deck, v, Head(types)), deck, v, Tail(types))

dealInitialCards(v, deck) ==
    dealTypes([piles |-> createPiles(v),
               faceUp |-> [c \in AllCards |-> FALSE],
               cardIndex |-> 0],
              deck, v, DealPileTypes(v))

\* ------------------------------------------------- blocking interpreter
NoIndex == 0 - 1

Condition(type, pileType, name) ==
    [type |-> type, pileType |-> pileType, pileIndex |-> NoIndex,
     operator |-> "none", count |-> 0, name |-> name]

\* getBlockingConditions()[pileType]; <<>> when the table has no such key
getBlockingConditions(v, pileType) ==
    CASE v = "sawayama" /\ pileType = "freecell" ->
           <<Condition("pileNotEmpty", "stock", "none")>>
      [] v = "tarot" /\ pileType = "foundation" ->
           <<Condition("custom", "none", "minorArcanaFreeCellBlocking")>>
      [] OTHER -> <<>>

checkPileNotEmpty(cond, ps) ==
    IF cond.pileIndex # NoIndex
    THEN LET p == PileAt(ps, cond.pileType, cond.pileIndex)
         IN IF p # 0 THEN ~isEmpty(ps, p) ELSE FALSE
    ELSE \E p \in PilesOfType(ps, cond.pileType) : ~isEmpty(ps, p)

checkPileEmpty(cond, ps) ==
    IF cond.pileIndex # NoIndex
    THEN LET p == PileAt(ps, cond.pileType, cond.pileIndex)
         IN IF p # 0 THEN isEmpty(ps, p) ELSE TRUE
    ELSE \A p \in PilesOfType(ps, cond.pileType) : isEmpty(ps, p)

compareCardCount(actual, operator, expected) ==
    CASE operator \in {"=", "=="} -> actual = expected
      [] operator \in {"!=", "<>"} -> actual # expected
      [] operator = "<" -> actual < expected
      [] operator = "<=" -> actual <= expected
      [] operator = ">" -> actual > expected
      [] operator = ">=" -> actual >= expected
      [] OTHER -> FALSE

checkPileCardCount(cond, ps) ==
    IF cond.pileIndex # NoIndex
    THEN LET p == PileAt(ps, cond.pileType, cond.pileIndex)
         IN IF p = 0 THEN FALSE
            ELSE compareCardCount(Len(ps[p].cards), cond.operator, cond.count)
    ELSE \E p \in PilesOfType(ps, cond.pileType) :
            compareCardCount(Len(ps[p].cards), cond.operator, cond.count)

\* evaluateCustomBlockingCondition that never blocks
evaluateCustomBlockingCondition_NeverBlocks(v, cond, ps, target) == FALSE

\* FortunesFoundationRules.evaluateCustomBlockingCondition; the base class
\* answers false
evaluateCustomBlockingCondition(v, cond, ps, target) ==
    IF v = "tarot" /\ cond.name = "minorArcanaFreeCellBlocking"
    THEN IF target # 0 /\ ps[target].type = "foundation" /\ ps[target].index < NumSuits
         THEN \E p \in PilesOfType(ps, "freecell") : ~isEmpty(ps, p)
         ELSE FALSE
    ELSE FALSE

evaluateBlockingCondition(v, cond, ps, target) ==
    CASE cond.type = "pileNotEmpty" -> checkPileNotEmpty(cond, ps)
      [] cond.type = "pileEmpty" -> checkPileEmpty(cond, ps)
      [] cond.type = "pileCardCount" -> checkPileCardCount(cond, ps)
      [] cond.type = "custom" -> evaluateCustomBlockingCondition(v, cond, ps, target)
      [] OTHER -> FALSE

\* the loop of isPileTypeBlocked over the conditions of a pile type
anyConditionBlocks(v, conditions, ps, target) ==
    \E i \in 1..Len(conditions) :
        evaluateBlockingCondition(v, conditions[i], ps, target)

\* isPileTypeBlocked that wants every condition to hold
isPileTypeBlocked_EveryCondition(v, pileType, ps, target) ==
    LET conditions == getBlockingConditions(v, pileType)
    IN \A i \in 1..Len(conditions) :
          evaluateBlockingCondition(v, conditions[i], ps, target)

isPileTypeBlocked(v, pileType, ps, target) ==
    anyConditionBlocks(v, getBlockingConditions(v, pileType), ps, target)

\* ------------------------------------------------------- Klondike rules
\* canStackCards that never looks at the target card's face
Klondike_canStackCards_AnyFace(card, targetCard, fu) ==
    IF targetCard = 0 THEN FALSE
    ELSE CardRank(card) = CardRank(targetCard) - 1
         /\ getSuitColor(card) # getSuitColor(targetCard)

Klondike_canStackCards(card, targetCard, fu) ==
    IF targetCard = 0 \/ ~fu[targetCard] THEN FALSE
    ELSE CardRank(card) = CardRank(targetCard) - 1
         /\ getSuitColor(card) # getSuitColor(targetCard)

Klondike_isValidFoundationMove(card, t, ps) ==
    IF ps[t].type # "foundation" THEN FALSE
    ELSE IF getTopCard(ps, t) = 0 THEN CardRank(card) = 1
    ELSE CardSuit(card) = CardSuit(getTopCard(ps, t))
         /\ CardRank(card) = CardRank(getTopCard(ps, t)) + 1

\* an empty tableau pile takes only the king: the highest rank of the deck
Klondike_isValidTableauMove(card, t, ps, fu) ==
    IF ps[t].type # "tableau" THEN FALSE
    ELSE IF getTopCard(ps, t) = 0 THEN CardRank(card) = NumRanks
    ELSE Klondike_canStackCards(card, getTopCard(ps, t), fu)

Klondike_isValidMove(card, t, ps, fu) ==
    IF ps[t].type = "foundation" THEN Klondike_isValidFoundationMove(card, t, ps)
    ELSE IF ps[t].type = "tableau" THEN Klondike_isValidTableauMove(card, t, ps, fu)
    ELSE FALSE

Klondike_getValidTargets(card, ps, fu) ==
    {p \in PilesOfType(ps, "foundation") : Klondike_isValidFoundationMove(card, p, ps)}
    \cup {p \in PilesOfType(ps, "tableau") : Klondike_isValidTableauMove(card, p, ps, fu)}

Klondike_canCardBeMovedFromPile(card, src, ps, fu) ==
    IF ps[src].type = "foundation" THEN FALSE
    ELSE IF ps[src].type = "tableau" THEN fu[card]
    ELSE IF ps[src].type \in {"stock", "waste"} THEN getTopCard(ps, src) = card
    ELSE FALSE

Klondike_canMoveStack(cs, t, ps, fu) ==
    IF Len(cs) = 0 THEN FALSE ELSE Klondike_isValidTableauMove(cs[1], t, ps, fu)

\* ------------------------------------------------------- FreeCell rules
FreeCell_isValidFoundationMove(card, t, ps) ==
    IF Len(ps[t].cards) = 0 THEN CardRank(card) = 1
    ELSE CardSuit(card) = CardSuit(getTopCard(ps, t))
         /\ CardRank(card) = CardRank(getTopCard(ps, t)) + 1

FreeCell_isValidTableauMove(card, t, ps) ==
    IF Len(ps[t].cards) = 0 THEN TRUE
    ELSE getSuitColor(card) # getSuitColor(getTopCard(ps, t))
         /\ CardRank(card) = CardRank(getTopCard(ps, t)) - 1

FreeCell_isValidFreeCellMove(card, t, ps) == Len(ps[t].cards) = 0

FreeCell_isValidMove(card, t, ps) ==
    CASE ps[t].type = "foundation" -> FreeCell_isValidFoundationMove(card, t, ps)
      [] ps[t].type = "tableau" -> FreeCell_isValidTableauMove(card, t, ps)
      [] ps[t].type = "freecell" -> FreeCell_isValidFreeCellMove(card, t, ps)
      [] OTHER -> FALSE

FreeCell_getValidTargets(card, ps) ==
    {p \in PilesOfType(ps, "foundation") : FreeCell_isValidFoundationMove(card, p, ps)}
    \cup {p \in PilesOfType(ps, "tableau") : FreeCell_isValidTableauMove(card, p, ps)}
    \cup {p \in PilesOfType(ps, "freecell") : FreeCell_isValidFreeCellMove(card, p, ps)}

FreeCell_canCardBeMovedFromPile(card, src, ps, fu) ==
    IF ps[src].type = "tableau" THEN fu[card] ELSE getTopCard(ps, src) = card

\* (empty free cells + 1) * 2^(empty tableau piles)
getMaxMoveableCards(ps) ==
    (Cardinality({p \in PilesOfType(ps, "freecell") : isEmpty(ps, p)}) + 1)
    * 2 ^ Cardinality({p \in PilesOfType(ps, "tableau") : isEmpty(ps, p)})

\* cards[0] of an empty run is undefined: an empty target accepts it without
\* reading it, a non-empty target reads its colour and throws (FALSE here)
FreeCell_canMoveStack(cs, t, ps) ==
    IF Len(cs) = 0 THEN Len(ps[t].cards) = 0
    ELSE IF ~FreeCell_isValidTableauMove(cs[1], t, ps) THEN FALSE
    ELSE Len(cs) <= getMaxMoveableCards(ps)

\* ------------------------------------------- Fortune's Foundation rules
\* isValidTableauMove that builds downwards only
Tarot_isValidTableauMove_Descending(card, t, ps) ==
    IF ps[t].type # "tableau" THEN FALSE
    ELSE IF getTopCard(ps, t) = 0 THEN TRUE
    ELSE IF CardSuit(card) # CardSuit(getTopCard(ps, t)) THEN FALSE
    ELSE CardRank(card) = CardRank(getTopCard(ps, t)) - 1

Tarot_isValidTableauMove(card, t, ps) ==
    IF ps[t].type # "tableau" THEN FALSE
    ELSE IF getTopCard(ps, t) = 0 THEN TRUE
    ELSE IF CardSuit(card) # CardSuit(getTopCard(ps, t)) THEN FALSE
    ELSE Abs(CardRank(card) - CardRank(getTopCard(ps, t))) = 1

\* isValidFoundationMove whose empty major foundations take any major card
Tarot_isValidFoundationMove_AnyMajorStarts(card, t, ps) ==
    IF ps[t].type # "foundation" THEN FALSE
    ELSE IF ps[t].index < NumSuits
    THEN IF ~isMinorArcana(card) THEN FALSE
         ELSE IF isPileTypeBlocked("tarot", "foundation", ps, t) THEN FALSE
         ELSE IF getTopCard(ps, t) = 0 THEN CardRank(card) = 1
         ELSE CardSuit(card) = CardSuit(getTopCard(ps, t))
              /\ CardRank(card) = CardRank(getTopCard(ps, t)) + 1
    ELSE IF ~isMajorArcana(card) THEN FALSE
         ELSE IF getTopCard(ps, t) = 0 THEN TRUE
         ELSE IF ps[t].index = NumSuits
         THEN CardRank(card) = CardRank(getTopCard(ps, t)) + 1
         ELSE CardRank(card) = CardRank(getTopCard(ps, t)) - 1

\* the two major foundations start at rank 0 and at the highest major rank
Tarot_isValidFoundationMove(card, t, ps) ==
    IF ps[t].type # "foundation" THEN FALSE
    ELSE IF ps[t].index < NumSuits
    THEN IF ~isMinorArcana(card) THEN FALSE
         ELSE IF isPileTypeBlocked("tarot", "foundation", ps, t) THEN FALSE
         ELSE IF getTopCard(ps, t) = 0 THEN CardRank(card) = 1
         ELSE CardSuit(card) = CardSuit(getTopCard(ps, t))
              /\ CardRank(card) = CardRank(getTopCard(ps, t)) + 1
    ELSE IF ~isMajorArcana(card) THEN FALSE
         ELSE IF getTopCard(ps, t) = 0
         THEN CardRank(card) = (IF ps[t].index = NumSuits THEN 0 ELSE NumMajor - 1)
         ELSE IF ps[t].index = NumSuits
         THEN CardRank(card) = CardRank(getTopCard(ps, t)) + 1
         ELSE CardRank(card) = CardRank(getTopCard(ps, t)) - 1

Tarot_isValidFreeCellMove(card, t, ps) == Len(ps[t].cards) = 0

Tarot_isValidMove(card, t, ps) ==
    CASE ps[t].type = "foundation" -> Tarot_isValidFoundationMove(card, t, ps)
      [] ps[t].type = "tableau" -> Tarot_isValidTableauMove(card, t, ps)
      [] ps[t].type = "freecell" -> Tarot_isValidFreeCellMove(card, t, ps)
      [] OTHER -> FALSE

\* getValidTargets that offers the minor foundations without asking the
\* blocking table
Tarot_getValidTargets_IgnoresBlocking(card, ps) ==
    {p \in PilesOfType(ps, "foundation") :
        IF ps[p].index < NumSuits
        THEN isMinorArcana(card)
             /\ (IF getTopCard(ps, p) = 0 THEN CardRank(card) = 1
                 ELSE CardSuit(card) = CardSuit(getTopCard(ps, p))
                      /\ CardRank(card) = CardRank(getTopCard(ps, p)) + 1)
        ELSE Tarot_isValidFoundationMove(card, p, ps)}
    \cup {p \in PilesOfType(ps, "tableau") : Tarot_isValidTableauMove(card, p, ps)}
    \cup {p \in PilesOfType(ps, "freecell") : isEmpty(ps, p)}

Tarot_getValidTargets(card, ps) ==
    {p \in PilesOfType(ps, "foundation") : Tarot_isValidFoundationMove(card, p, ps)}
    \cup {p \in PilesOfType(ps, "tableau") : Tarot_isValidTableauMove(card, p, ps)}
    \cup {p \in PilesOfType(ps, "freecell") : isEmpty(ps, p)}

Tarot_canCardBeMovedFromPile(card, src, ps) == getTopCard(ps, src) = card

Tarot_canMoveStack(cs, t, ps) ==
    IF Len(cs) = 0 THEN FALSE ELSE Tarot_isValidTableauMove(cs[1], t, ps)

\* ------------------------------------------------------- Sawayama rules
Sawayama_isValidFoundationMove(card, t, ps) ==
    IF Len(ps[t].cards) = 0 THEN CardRank(card) = 1
    ELSE CardSuit(card) = CardSuit(getTopCard(ps, t))
         /\ CardRank(card) = CardRank(getTopCard(ps, t)) + 1

Sawayama_isValidTableauMove(card, t, ps) ==
    IF Len(ps[t].cards) = 0 THEN TRUE
    ELSE getSuitColor(card) # getSuitColor(getTopCard(ps, t))
         /\ CardRank(card) = CardRank(getTopCard(ps, t)) - 1

\* isValidFreeCellMove that does not ask whether the free cells are blocked
Sawayama_isValidFreeCellMove_IgnoresStock(card, t, ps) == Len(ps[t].cards) = 0

Sawayama_isValidFreeCellMove(card, t, ps) ==
    IF isPileTypeBlocked("sawayama", "freecell", ps, t) THEN FALSE
    ELSE Len(ps[t].cards) = 0

Sawayama_isValidMove(card, t, ps) ==
    CASE ps[t].type = "foundation" -> Sawayama_isValidFoundationMove(card, t, ps)
      [] ps[t].type = "tableau" -> Sawayama_isValidTableauMove(card, t, ps)
      [] ps[t].type = "freecell" -> Sawayama_isValidFreeCellMove(card, t, ps)
      [] OTHER -> FALSE

Sawayama_getValidTargets(card, ps) ==
    {p \in PilesOfType(ps, "foundation") : Sawayama_isValidFoundationMove(card, p, ps)}
    \cup {p \in PilesOfType(ps, "tableau") : Sawayama_isValidTableauMove(card, p, ps)}
    \cup {p \in PilesOfType(ps, "freecell") : Sawayama_isValidFreeCellMove(card, p, ps)}

\* SawayamaRules.canCardBeMovedFromPile that lets foundation cards go
Sawayama_canCardBeMovedFromPile_FromFoundation(card, src, ps) ==
    IF ps[src].type \in {"foundation", "tableau", "freecell"} THEN TRUE
    ELSE IF ps[src].type \in {"stock", "waste"} THEN getTopCard(ps, src) = card
    ELSE FALSE

Sawayama_canCardBeMovedFromPile(card, src, ps) ==
    IF ps[src].type = "foundation" THEN FALSE
    ELSE IF ps[src].type \in {"tableau", "freecell"} THEN TRUE
    ELSE IF ps[src].type \in {"stock", "waste"} THEN getTopCard(ps, src) = card
    ELSE FALSE

Sawayama_canMoveStack(cs, t, ps) ==
    IF Len(cs) = 0 THEN Len(ps[t].cards) = 0 ELSE Sawayama_isValidTableauMove(cs[1], t, ps)

\* ------------------------------------------- dispatch on the rules object
\* gameRules.isValidMove(card, targetPile, game)
Rules_isValidMove(v, card, t, ps, fu) ==
    CASE v = "klondike" -> Klondike_isValidMove(card, t, ps, fu)
      [] v = "freecell" -> FreeCell_isValidMove(card, t, ps)
      [] v = "tarot" -> Tarot_isValidMove(card, t, ps)
      [] v = "sawayama" -> Sawayama_isValidMove(card, t, ps)

\* gameRules.getValidTargets(card, game)
Rules_getValidTargets(v, card, ps, fu) ==
    CASE v = "klondike" -> Klondike_getValidTargets(card, ps, fu)
      [] v = "freecell" -> FreeCell_getValidTargets(card, ps)
      [] v = "tarot" -> Tarot_getValidTargets(card, ps)
      [] v = "sawayama" -> Sawayama_getValidTargets(card, ps)

\* gameRules.canCardBeMovedFromPile(card, sourcePile, game)
Rules_canCardBeMovedFromPile(v, card, src, ps, fu) ==
    CASE v = "klondike" -> Klondike_canCardBeMovedFromPile(card, src, ps, fu)
      [] v = "freecell" -> FreeCell_canCardBeMovedFromPile(card, src, ps, fu)
      [] v = "tarot" -> Tarot_canCardBeMovedFromPile(card, src, ps)
      [] v = "sawayama" -> Sawayama_canCardBeMovedFromPile(card, src, ps)

\* gameRules.canMoveStack(cards, targetPile, game)
Rules_canMoveStack(v, cs, t, ps, fu) ==
    CASE v = "klondike" -> Klondike_canMoveStack(cs, t, ps, fu)
      [] v = "freecell" -> FreeCell_canMoveStack(cs, t, ps)
      [] v = "tarot" -> Tarot_canMoveStack(cs, t, ps)
      [] v = "sawayama" -> Sawayama_canMoveStack(cs, t, ps)

\* ----------------------------------------------- win-condition interpreter
WinCondition(type, required, cardsPerPile) ==
    [type |-> type, required |-> required, cardsPerPile |-> cardsPerPile]

\* getWinConditions(): a foundation is complete with one card of every rank
getWinConditions(v) ==
    IF v = "tarot" THEN <<WinCondition("custom", "none", 0)>>
    ELSE <<WinCondition("foundationComplete", "all", NumRanks)>>

checkFoundationComplete(cond, ps) ==
    CASE cond.required = "all" ->
           \A p \in PilesOfType(ps, "foundation") : Len(ps[p].cards) = cond.cardsPerPile
      [] cond.required = "any" ->
           \E p \in PilesOfType(ps, "foundation") : Len(ps[p].cards) = cond.cardsPerPile
      [] OTHER -> FALSE

checkTableauEmpty(cond, ps) ==
    CASE cond.required = "all" -> \A p \in PilesOfType(ps, "tableau") : Len(ps[p].cards) = 0
      [] cond.required = "any" -> \E p \in PilesOfType(ps, "tableau") : Len(ps[p].cards) = 0
      [] OTHER -> FALSE

checkAllCardsInFoundation(cs, ps) ==
    SumSeq([p \in 1..Len(ps) |->
              IF ps[p].type = "foundation" THEN Len(ps[p].cards) ELSE 0]) = Len(cs)

\* checkCustomWinCondition that wants all the major arcana on the first of
\* the two major foundations
checkCustomWinCondition_FirstMajorPileOnly(v, ps) ==
    IF v # "tarot" THEN FALSE
    ELSE IF \E i \in 0..(NumSuits - 1) :
              PileAt(ps, "foundation", i) = 0
              \/ Len(ps[PileAt(ps, "foundation", i)].cards) # NumRanks
    THEN FALSE
    ELSE IF PileAt(ps, "foundation", NumSuits) = 0
            \/ PileAt(ps, "foundation", NumSuits + 1) = 0
    THEN FALSE
    ELSE Len(ps[PileAt(ps, "foundation", NumSuits)].cards) = NumMajor

\* FortunesFoundationRules.checkCustomWinCondition; the base class answers false
checkCustomWinCondition(v, ps) ==
    IF v # "tarot" THEN FALSE
    ELSE IF \E i \in 0..(NumSuits - 1) :
              PileAt(ps, "foundation", i) = 0
              \/ Len(ps[PileAt(ps, "foundation", i)].cards) # NumRanks
    THEN FALSE
    ELSE IF PileAt(ps, "foundation", NumSuits) = 0
            \/ PileAt(ps, "foundation", NumSuits + 1) = 0
    THEN FALSE
    ELSE Len(ps[PileAt(ps, "foundation", NumSuits)].cards)
         + Len(ps[PileAt(ps, "foundation", NumSuits + 1)].cards) = NumMajor

\* checkWinConditionType that lets a condition of unknown type pass
checkWinConditionType_UnknownPasses(v, cond, cs, ps) ==
    CASE cond.type = "foundationComplete" -> checkFoundationComplete(cond, ps)
      [] cond.type = "tableauEmpty" -> checkTableauEmpty(cond, ps)
      [] cond.type = "allCardsInFoundation" -> checkAllCardsInFoundation(cs, ps)
      [] cond.type = "custom" -> checkCustomWinCondition(v, ps)
      [] OTHER -> TRUE

checkWinConditionType(v, cond, cs, ps) ==
    CASE cond.type = "foundationComplete" -> checkFoundationComplete(cond, ps)
      [] cond.type = "tableauEmpty" -> checkTableauEmpty(cond, ps)
      [] cond.type = "allCardsInFoundation" -> checkAllCardsInFoundation(cs, ps)
      [] cond.type = "custom" -> checkCustomWinCondition(v, ps)
      [] OTHER -> FALSE

\* the loop of GameRules.checkWinCondition over a list of win conditions
allWinConditionsHold(v, conditions, cs, ps) ==
    \A i \in 1..Len(conditions) : checkWinConditionType(v, conditions[i], cs, ps)

\* FreeCellRules overrides checkWinCondition with its own count of the
\* foundation piles; the other variants run the interpreter
Rules_checkWinCondition(v, cs, ps) ==
    IF v = "freecell"
    THEN \A p \in PilesOfType(ps, "foundation") : Len(ps[p].cards) = NumRanks
    ELSE allWinConditionsHold(v, getWinConditions(v), cs, ps)

\* ---------------------------------------------------------------- scoring
\* getScoringRules()[pileType].points, the same table in every variant
getScoringRules(type) ==
    CASE type = "foundation" -> FoundationPoints
      [] type = "tableau" -> TableauPoints
      [] type = "freecell" -> FreeCellPoints
      [] OTHER -> 0

getMoveScore(t, ps) == getScoringRules(ps[t].type)

\* getMaximumScore(): the same estimate in every variant
getMaximumScore(v) == MaximumScore

\* the score after a move: capped at the maximum in debug mode only
\* the score update with the cap applied whatever the debug mode
addMoveScore_AlwaysCaps(v, g, moveScore) ==
    IF g.score + moveScore > getMaximumScore(v)
    THEN getMaximumScore(v)
    ELSE g.score + moveScore

addMoveScore(v, g, moveScore) ==
    IF g.debugMode /\ g.score + moveScore > getMaximumScore(v)
    THEN getMaximumScore(v)
    ELSE g.score + moveScore

\* ------------------------------------------------- stock and flip tables
\* the tables with a Sawayama that redeals the waste when the stock is empty
getStockDrawingRules_SawayamaRedeals(v) ==
    CASE v = "klondike" ->
           [cardsPerDraw |-> KlondikeCardsPerDraw, redealWhenEmpty |-> TRUE,
            shuffleOnRedeal |-> TRUE, faceUpOnDraw |-> TRUE, faceDownOnRedeal |-> TRUE]
      [] v = "sawayama" ->
           [cardsPerDraw |-> SawayamaCardsPerDraw, redealWhenEmpty |-> TRUE,
            shuffleOnRedeal |-> FALSE, faceUpOnDraw |-> TRUE, faceDownOnRedeal |-> FALSE]
      [] OTHER ->
           [cardsPerDraw |-> 0, redealWhenEmpty |-> FALSE,
            shuffleOnRedeal |-> FALSE, faceUpOnDraw |-> FALSE, faceDownOnRedeal |-> FALSE]

getStockDrawingRules(v) ==
    CASE v = "klondike" ->
           [cardsPerDraw |-> KlondikeCardsPerDraw, redealWhenEmpty |-> TRUE,
            shuffleOnRedeal |-> TRUE, faceUpOnDraw |-> TRUE, faceDownOnRedeal |-> TRUE]
      [] v = "sawayama" ->
           [cardsPerDraw |-> SawayamaCardsPerDraw, redealWhenEmpty |-> FALSE,
            shuffleOnRedeal |-> FALSE, faceUpOnDraw |-> TRUE, faceDownOnRedeal |-> FALSE]
      [] OTHER ->
           [cardsPerDraw |-> 0, redealWhenEmpty |-> FALSE,
            shuffleOnRedeal |-> FALSE, faceUpOnDraw |-> FALSE, faceDownOnRedeal |-> FALSE]

\* getCardFlippingRules()[pileType]; has = FALSE when the table has no such
\* key.  Sawayama inherits the base table.
getCardFlippingRules(v, type) ==
    CASE type = "tableau" /\ v \in {"klondike", "sawayama"} ->
           [has |-> TRUE, flipOnMove |-> TRUE, flipCondition |-> "faceDown"]
      [] type = "tableau" ->
           [has |-> TRUE, flipOnMove |-> FALSE, flipCondition |-> "never"]
      [] type = "foundation" ->
           [has |-> TRUE, flipOnMove |-> FALSE, flipCondition |-> "never"]
      [] type = "stock" /\ v \in {"klondike", "sawayama"} ->
           [has |-> TRUE, flipOnMove |-> FALSE, flipCondition |-> "never"]
      [] OTHER ->
           [has |-> FALSE, flipOnMove |-> FALSE, flipCondition |-> "never"]

\* usesStockWaste(): read off the deal pattern
usesStockWaste(v) ==
    LET stock == getDealPattern(v, "stock")
        waste == getDealPattern(v, "waste")
    IN (stock.piles > 0 /\ \E i \in 1..Len(stock.cardsPerPile) : stock.cardsPerPile[i] > 0)
       \/ waste.piles > 0

\* ------------------------------------------------------------------- Game
\* The fields of the Game object as one record
Game(cs, ps, fu, sc, ms, started, won, debug) ==
    [cards |-> cs, piles |-> ps, faceUp |-> fu, score |-> sc, moves |-> ms,
     gameStarted |-> started, gameWon |-> won, debugMode |-> debug]

\* new Game(deckConfig, gameRules)
NewGame == Game(<<>>, <<>>, [c \in AllCards |-> FALSE], 0, <<>>, FALSE, FALSE, FALSE)

Current == Game(cards, piles, faceUp, score, moves, gameStarted, gameWon, debugMode)

\* findCardPile: the first pile holding the card, 0 if none
findCardPile(ps, card) ==
    LET holders == {p \in 1..Len(ps) : card \in Range(ps[p].cards)}
    IN IF holders = {} THEN 0 ELSE CHOOSE p \in holders : \A q \in holders : p <= q

\* Game.isValidMove without the question to canCardBeMovedFromPile
Game_isValidMove_NoSourceGate(v, g, card, t) ==
    LET src == findCardPile(g.piles, card)
    IN IF src = 0 THEN FALSE
       ELSE Rules_isValidMove(v, card, t, g.piles, g.faceUp)

\* Game.isValidMove: the source gate, then the target's legality
Game_isValidMove(v, g, card, t) ==
    LET src == findCardPile(g.piles, card)
    IN IF src = 0 THEN FALSE
       ELSE IF ~Rules_canCardBeMovedFromPile(v, card, src, g.piles, g.faceUp) THEN FALSE
       ELSE Rules_isValidMove(v, card, t, g.piles, g.faceUp)

\* Game.getValidMoves
Game_getValidMoves(v, g, card) == Rules_getValidTargets(v, card, g.piles, g.faceUp)

\* flipTopCardIfNeededAndRecord: the face states afterwards and the card
\* that was flipped (0 = null)
flipTopCardIfNeededAndRecord(v, ps, fu, p) ==
    LET rules == getCardFlippingRules(v, ps[p].type)
        top == getTopCard(ps, p)
    IN IF ~rules.has THEN [faceUp |-> fu, flipped |-> 0]
       ELSE IF rules.flipOnMove /\ Len(ps[p].cards) > 0
       THEN IF rules.flipCondition = "faceDown" /\ ~fu[top]
            THEN [faceUp |-> [fu EXCEPT ![top] = ~@], flipped |-> top]
            ELSE IF rules.flipCondition = "always"
            THEN [faceUp |-> [fu EXCEPT ![top] = ~@], flipped |-> top]
            ELSE [faceUp |-> fu, flipped |-> 0]
       ELSE [faceUp |-> fu, flipped |-> 0]

\* flipTopCardIfNeeded: the same without the record
flipTopCardIfNeeded(v, ps, fu, p) == flipTopCardIfNeededAndRecord(v, ps, fu, p).faceUp

\* Game.checkWinCondition
Game_checkWinCondition(v, g) == Rules_checkWinCondition(v, g.cards, g.piles)

\* a record that names the target as the source and the source as the target
MoveRecord_SwapsPiles(isStack, cs, from, to, flipped) ==
    [isStack |-> isStack, cards |-> cs, fromPile |-> to, toPile |-> from,
     flippedCard |-> flipped]

\* a move record; timestamps are not modelled
MoveRecord(isStack, cs, from, to, flipped) ==
    [isStack |-> isStack, cards |-> cs, fromPile |-> from, toPile |-> to,
     flippedCard |-> flipped]

\* what a call leaves behind: the game and what the call returned
Outcome(g, result) == [g |-> g, result |-> result]

\* Game.makeMove that leaves the card on its source pile as well
makeMove_KeepsSourceCard(v, g, card, t) ==
    IF ~Game_isValidMove(v, g, card, t) THEN Outcome(g, FALSE)
    ELSE
      LET src == findCardPile(g.piles, card)
          ps2 == addCard(g.piles, t, card)
          flip == flipTopCardIfNeededAndRecord(v, ps2, g.faceUp, src)
          move == MoveRecord(FALSE, <<card>>, src, t, flip.flipped)
          g1 == [g EXCEPT !.piles = ps2,
                          !.score = addMoveScore(v, g, getMoveScore(t, ps2)),
                          !.moves = Append(@, move),
                          !.faceUp = flip.faceUp]
      IN Outcome([g1 EXCEPT !.gameWon = Game_checkWinCondition(v, g1)], TRUE)

\* Game.makeMove(card, targetPile)
makeMove(v, g, card, t) ==
    IF ~Game_isValidMove(v, g, card, t) THEN Outcome(g, FALSE)
    ELSE
      LET src == findCardPile(g.piles, card)
          ps1 == removeTopCard(g.piles, src)
          ps2 == addCard(ps1, t, card)
          flip == flipTopCardIfNeededAndRecord(v, ps2, g.faceUp, src)
          move == MoveRecord(FALSE, <<card>>, src, t, flip.flipped)
          g1 == [g EXCEPT !.piles = ps2,
                          !.score = addMoveScore(v, g, getMoveScore(t, ps2)),
                          !.moves = Append(@, move),
                          !.faceUp = flip.faceUp]
      IN Outcome([g1 EXCEPT !.gameWon = Game_checkWinCondition(v, g1)], TRUE)

RECURSIVE removeTopCards(_, _, _)
removeTopCards(ps, p, n) ==
    IF n = 0 THEN ps ELSE removeTopCards(removeTopCard(ps, p), p, n - 1)

\* Game.makeStackMove(card, targetPile, cardStack).  A cardStack longer than
\* the source pile makes removeTopCard throw once the pile is empty: the
\* call ends there, with the source pile emptied and nothing else done.
makeStackMove(v, g, card, t, cardStack) ==
    IF ~Game_isValidMove(v, g, card, t) THEN Outcome(g, FALSE)
    ELSE
      LET src == findCardPile(g.piles, card)
          n == Len(cardStack)
      IN IF n > Len(g.piles[src].cards)
         THEN Outcome([g EXCEPT !.piles = removeTopCards(@, src, Len(g.piles[src].cards))],
                      "threw")
         ELSE
           LET ps1 == removeTopCards(g.piles, src, n)
               ps2 == addCards(ps1, t, cardStack)
               flip == flipTopCardIfNeededAndRecord(v, ps2, g.faceUp, src)
               move == MoveRecord(TRUE, cardStack, src, t, flip.flipped)
               g1 == [g EXCEPT !.piles = ps2,
                               !.score = addMoveScore(v, g, getMoveScore(t, ps2)),
                               !.moves = Append(@, move),
                               !.faceUp = flip.faceUp]
           IN Outcome([g1 EXCEPT !.gameWon = Game_checkWinCondition(v, g1)], TRUE)

\* Game.undoMove()
undoMove(v, g) ==
    IF Len(g.moves) = 0 THEN Outcome(g, FALSE)
    ELSE
      LET lastMove == g.moves[Len(g.moves)]
          popped == [g EXCEPT !.moves = SubSeq(@, 1, Len(@) - 1)]
          n == IF lastMove.isStack THEN Len(lastMove.cards) ELSE 1
          to == lastMove.toPile
          from == lastMove.fromPile
      IN IF n > Len(g.piles[to].cards)
         THEN Outcome([popped EXCEPT !.piles = removeTopCards(@, to, Len(g.piles[to].cards))],
                      "threw")
         ELSE
           LET ps1 == removeTopCards(g.piles, to, n)
               ps2 == addCards(ps1, from, lastMove.cards)
               sc == IF n > 0 THEN g.score - getMoveScore(to, ps2) ELSE g.score
               fu1 == flipTopCardIfNeeded(v, ps2, g.faceUp, from)
               fu2 == IF lastMove.flippedCard # 0
                      THEN [fu1 EXCEPT ![lastMove.flippedCard] = ~@] ELSE fu1
           IN Outcome([popped EXCEPT !.piles = ps2, !.score = sc, !.faceUp = fu2], TRUE)

\* the first pile of a type (piles.find), 0 if none
FirstPileOfType(ps, type) == NthPileOfType(ps, type, 0)

RECURSIVE drawCards(_, _, _, _, _)
drawCards(g, stock, waste, n, up) ==
    IF n = 0 THEN g
    ELSE LET c == getTopCard(g.piles, stock)
         IN drawCards([g EXCEPT !.piles = addCard(removeTopCard(@, stock), waste, c),
                                !.faceUp = [@ EXCEPT ![c] = up]],
                      stock, waste, n - 1, up)

\* a redeal that also empties the move log
redealWasteToStock_ClearsMoves(v, g, stock, waste) ==
    LET rules == getStockDrawingRules(v)
        moved == drawCards(g, waste, stock, Len(g.piles[waste].cards), rules.faceDownOnRedeal)
    IN IF rules.shuffleOnRedeal
       THEN {[moved EXCEPT !.piles[stock].cards = s, !.moves = <<>>] :
                s \in ShuffleOutcomes(moved.piles[stock].cards)}
       ELSE {[moved EXCEPT !.moves = <<>>]}

\* redealWasteToStock(): every outcome of the closing shuffle
redealWasteToStock(v, g, stock, waste) ==
    LET rules == getStockDrawingRules(v)
        moved == drawCards(g, waste, stock, Len(g.piles[waste].cards), rules.faceDownOnRedeal)
    IN IF rules.shuffleOnRedeal
       THEN {[moved EXCEPT !.piles[stock].cards = s] :
                s \in ShuffleOutcomes(moved.piles[stock].cards)}
       ELSE {moved}

\* Game.drawFromStock() that draws one card whatever cardsPerDraw says
drawFromStock_OneCardPerDraw(v, g) ==
    LET stock == FirstPileOfType(g.piles, "stock")
        waste == FirstPileOfType(g.piles, "waste")
        rules == getStockDrawingRules(v)
    IN IF ~usesStockWaste(v) THEN {g}
       ELSE IF stock = 0 \/ waste = 0 THEN {g}
       ELSE IF isEmpty(g.piles, stock)
       THEN IF rules.redealWhenEmpty THEN redealWasteToStock(v, g, stock, waste) ELSE {g}
       ELSE {drawCards(g, stock, waste, 1, rules.faceUpOnDraw)}

\* Game.drawFromStock(): the set of games it can leave behind
drawFromStock(v, g) ==
    LET stock == FirstPileOfType(g.piles, "stock")
        waste == FirstPileOfType(g.piles, "waste")
        rules == getStockDrawingRules(v)
    IN IF ~usesStockWaste(v) THEN {g}
       ELSE IF stock = 0 \/ waste = 0 THEN {g}
       ELSE IF isEmpty(g.piles, stock)
       THEN IF rules.redealWhenEmpty THEN redealWasteToStock(v, g, stock, waste) ELSE {g}
       ELSE {drawCards(g, stock, waste,
                       Min(rules.cardsPerDraw, Len(g.piles[stock].cards)),
                       rules.faceUpOnDraw)}

\* Game.startNewGame(): every outcome of the shuffle
startNewGame(v, g) ==
    {LET dealt == dealInitialCards(v, deck)
     IN Game(deck, dealt.piles, dealt.faceUp, 0, <<>>, TRUE, FALSE, g.debugMode) :
        deck \in ShuffleOutcomes(CreateDeck(v))}

\* a reset that keeps the score and the move log
reset_KeepsScoreAndMoves(g) ==
    [NewGame EXCEPT !.debugMode = g.debugMode, !.score = g.score, !.moves = g.moves]

\* Game.reset()
reset(g) == [NewGame EXCEPT !.debugMode = g.debugMode]

\* Game.setDebugMode(enabled)
setDebugMode(g, enabled) == [g EXCEPT !.debugMode = enabled]

\* ---------------------------------------------------------------- actions
Become(g) ==
    /\ cards' = g.cards
    /\ piles' = g.piles
    /\ faceUp' = g.faceUp
    /\ score' = g.score
    /\ moves' = g.moves
    /\ gameStarted' = g.gameStarted
    /\ gameWon' = g.gameWon
    /\ debugMode' = g.debugMode

\* Pile.getCardsFromIndex at the place of `card`: the cards from `card` to the
\* top of its pile, the cardStack of a well-formed makeStackMove call
ProperStack(ps, card) ==
    LET src == findCardPile(ps, card)
        at == CHOOSE i \in 1..Len(ps[src].cards) :
                 /\ ps[src].cards[i] = card
                 /\ \A j \in 1..(i - 1) : ps[src].cards[j] # card
    IN SubSeq(ps[src].cards, at, Len(ps[src].cards))

Init ==
    /\ variant \in Variants
    /\ cards = NewGame.cards
    /\ piles = NewGame.piles
    /\ faceUp = NewGame.faceUp
    /\ score = NewGame.score
    /\ moves = NewGame.moves
    /\ gameStarted = NewGame.gameStarted
    /\ gameWon = NewGame.gameWon
    /\ debugMode = NewGame.debugMode
    /\ loosePile = Pile("tableau", 0, <<>>)
    /\ position = NoPositions

StartNewGame ==
    /\ \E g \in startNewGame(variant, Current) : Become(g)
    /\ UNCHANGED <<variant, loosePile, position>>

Reset ==
    /\ Become(reset(Current))
    /\ UNCHANGED <<variant, loosePile, position>>

SetDebugMode(enabled) ==
    /\ Become(setDebugMode(Current, enabled))
    /\ UNCHANGED <<variant, loosePile, position>>

MakeMove(card, t) ==
    /\ Len(moves) < MaxMoves
    /\ Become(makeMove(variant, Current, card, t).g)
    /\ UNCHANGED <<variant, loosePile, position>>

MakeStackMove(card, t) ==
    /\ Len(moves) < MaxMoves
    /\ findCardPile(piles, card) # 0
    /\ Become(makeStackMove(variant, Current, card, t, ProperStack(piles, card)).g)
    /\ UNCHANGED <<variant, loosePile, position>>

UndoMove ==
    /\ Become(undoMove(variant, Current).g)
    /\ UNCHANGED <<variant, loosePile, position>>

DrawFromStock ==
    /\ \E g \in drawFromStock(variant, Current) : Become(g)
    /\ UNCHANGED <<variant, loosePile, position>>

Next ==
    \/ StartNewGame
    \/ Reset
    \/ \E enabled \in BOOLEAN : SetDebugMode(enabled)
    \/ \E card \in Range(cards), t \in PileIds : MakeMove(card, t)
    \/ \E card \in Range(cards), t \in PileIds : MakeStackMove(card, t)
    \/ UndoMove
    \/ DrawFromStock

Spec == Init /\ [][Next]_vars

\* ------------------------------------------- a game played by makeMove
\* makeMove with a longer move log than the full game's search affords
MakeMoveOnly(card, t) ==
    /\ Len(moves) < MaxSingleMoves
    /\ Become(makeMove(variant, Current, card, t).g)
    /\ UNCHANGED <<variant, loosePile, position>>

NextMoves ==
    \/ StartNewGame
    \/ \E card \in Range(cards), t \in PileIds : MakeMoveOnly(card, t)

SpecMoves == Init /\ [][NextMoves]_vars

\* -------------------------------------- a caller that passes any cardStack
\* cardStack arguments for makeStackMove(card, ...): the cards from `card` to
\* the top, the whole pile with `card` again (one more than the pile holds),
\* and the empty array
StackInputs(ps, card) ==
    IF findCardPile(ps, card) = 0 THEN {<<card>>}
    ELSE {ProperStack(ps, card),
          ps[findCardPile(ps, card)].cards \o <<card>>,
          <<>>}

MakeStackMoveWith(card, t, cardStack) ==
    /\ Len(moves) < MaxMoves
    /\ Become(makeStackMove(variant, Current, card, t, cardStack).g)
    /\ UNCHANGED <<variant, loosePile, position>>

NextAnyStack ==
    \/ StartNewGame
    \/ \E card \in Range(cards), t \in PileIds :
          \E cardStack \in StackInputs(piles, card) : MakeStackMoveWith(card, t, cardStack)

SpecAnyStack == Init /\ [][NextAnyStack]_vars

\* ------------------------------------------ checkWinCondition on layouts
\* how far each foundation is built: the suit foundations hold the first
\* ranks of their suit, the two major foundations the lowest and the highest
\* major arcana
Fills(v) ==
    IF IsTarot(v)
    THEN {f \in [0..(NumSuits + 1) -> 0..(IF NumRanks > NumMajor THEN NumRanks ELSE NumMajor)] :
             /\ \A i \in 0..(NumSuits - 1) : f[i] <= NumRanks
             /\ f[NumSuits] + f[NumSuits + 1] <= NumMajor}
    ELSE [0..(NumSuits - 1) -> 0..NumRanks]

FoundationCards(v, f, i) ==
    IF i < NumSuits THEN [k \in 1..f[i] |-> i * NumRanks + k]
    ELSE IF i = NumSuits THEN [k \in 1..f[i] |-> NumSuits * NumRanks + k]
    ELSE [k \in 1..f[i] |-> NumSuits * NumRanks + NumMajor + 1 - k]

RECURSIVE Keep(_, _)
Keep(s, set) ==
    IF s = <<>> THEN <<>>
    ELSE IF Head(s) \in set THEN <<Head(s)>> \o Keep(Tail(s), set)
    ELSE Keep(Tail(s), set)

\* the piles of a game played that far: the rest of the deck on the first
\* tableau pile
Layout(v, f) ==
    LET empty == createPiles(v)
        built == [p \in 1..Len(empty) |->
                    IF empty[p].type = "foundation"
                    THEN [empty[p] EXCEPT !.cards = FoundationCards(v, f, empty[p].index)]
                    ELSE empty[p]]
        placed == UNION {Range(built[p].cards) : p \in 1..Len(built)}
        first == FirstPileOfType(built, "tableau")
    IN [built EXCEPT ![first].cards = Keep(CreateDeck(v), (1..DeckSize(v)) \ placed)]

InitLayout ==
    /\ variant \in Variants
    /\ cards = CreateDeck(variant)
    /\ piles \in {Layout(variant, f) : f \in Fills(variant)}
    /\ faceUp = [c \in AllCards |-> c <= DeckSize(variant)]
    /\ score = 0
    /\ moves = <<>>
    /\ gameStarted = TRUE
    /\ gameWon = FALSE
    /\ debugMode = FALSE
    /\ loosePile = Pile("tableau", 0, <<>>)
    /\ position = NoPositions

\* Game.checkWinCondition() as a call of its own
CheckWinCondition ==
    /\ Become([Current EXCEPT !.gameWon = Game_checkWinCondition(variant, Current)])
    /\ UNCHANGED <<variant, loosePile, position>>

SpecLayout == InitLayout /\ [][CheckWinCondition]_vars

\* ------------------------------------------- canMoveStack on layouts
\* the game board's findCardStack: the cards from `card` upwards, up to the
\* first face-down card
findCardStack(ps, fu, card) ==
    LET proper == ProperStack(ps, card)
        down == {i \in 1..Len(proper) : ~fu[proper[i]]}
    IN IF down = {} THEN proper
       ELSE SubSeq(proper, 1, (CHOOSE i \in down : \A j \in down : i <= j) - 1)

\* the game board's handlePileClick with `card` selected: a click on the
\* card's own pile is ignored; a stack of several cards is moved only if the
\* rules' canMoveStack lets it
handlePileClick(v, g, card, t) ==
    IF card \in Range(g.piles[t].cards) THEN g
    ELSE IF ~Game_isValidMove(v, g, card, t) THEN g
    ELSE
      LET cardStack == findCardStack(g.piles, g.faceUp, card)
      IN IF Len(cardStack) > 1
         THEN IF ~Rules_canMoveStack(v, cardStack, t, g.piles, g.faceUp) THEN g
              ELSE makeStackMove(v, g, card, t, cardStack).g
         ELSE makeMove(v, g, card, t).g

\* the orders a deck can be in
DeckOrders(v) ==
    {d \in [1..DeckSize(v) -> 1..DeckSize(v)] :
        \A i, j \in 1..DeckSize(v) : d[i] = d[j] => i = j}

\* a free-cell game in play: the first k cards of the deck order on the
\* first tableau pile, `cells` cards in free cells, the rest on the second
\* tableau pile
RunLayout(d, k, cells) ==
    LET empty == createPiles("freecell")
        n == Len(d)
    IN [p \in 1..Len(empty) |->
          IF empty[p].type = "tableau" /\ empty[p].index = 0
          THEN [empty[p] EXCEPT !.cards = SubSeq(d, 1, k)]
          ELSE IF empty[p].type = "tableau" /\ empty[p].index = 1
          THEN [empty[p] EXCEPT !.cards = SubSeq(d, k + 1, n - cells)]
          ELSE IF empty[p].type = "freecell" /\ empty[p].index < cells
          THEN [empty[p] EXCEPT !.cards = <<d[n - empty[p].index]>>]
          ELSE empty[p]]

InitRuns ==
    /\ variant = "freecell"
    /\ cards = CreateDeck(variant)
    /\ piles \in {RunLayout(d, k, cells) :
                     d \in DeckOrders(variant),
                     k \in 0..(DeckSize(variant) - NumFreeCells),
                     cells \in 0..NumFreeCells}
    /\ faceUp = [c \in AllCards |-> c <= DeckSize(variant)]
    /\ score = 0
    /\ moves = <<>>
    /\ gameStarted = TRUE
    /\ gameWon = FALSE
    /\ debugMode = FALSE
    /\ loosePile = Pile("tableau", 0, <<>>)
    /\ position = NoPositions

\* a click on pile t with `card` selected
PileClick(card, t) ==
    /\ Len(moves) < 1
    /\ Become(handlePileClick(variant, Current, card, t))
    /\ UNCHANGED <<variant, loosePile, position>>

NextRuns == \E card \in Range(cards), t \in PileIds : PileClick(card, t)

SpecRuns == InitRuns /\ [][NextRuns]_vars


\* ------------------------------- stack moves the rules' canMoveStack lets
\* makeStackMove called, as the board calls it, only with a stack that
\* gameRules.canMoveStack accepts for the target pile
MakeAcceptedStackMove(card, t) ==
    /\ Len(moves) < MaxMoves
    /\ findCardPile(piles, card) # 0
    /\ Rules_canMoveStack(variant, ProperStack(piles, card), t, piles, faceUp)
    /\ Become(makeStackMove(variant, Current, card, t, ProperStack(piles, card)).g)
    /\ UNCHANGED <<variant, loosePile, position>>

NextAccepted ==
    \/ StartNewGame
    \/ \E card \in Range(cards), t \in PileIds : MakeMove(card, t)
    \/ \E card \in Range(cards), t \in PileIds : MakeAcceptedStackMove(card, t)
    \/ UndoMove
    \/ DrawFromStock

SpecAccepted == Init /\ [][NextAccepted]_vars


\* --------------------------------------------- a longer game of Sawayama
\* the Game API on a Sawayama game alone, with a longer move log
InitHybrid ==
    /\ variant = "sawayama"
    /\ cards = NewGame.cards
    /\ piles = NewGame.piles
    /\ faceUp = NewGame.faceUp
    /\ score = NewGame.score
    /\ moves = NewGame.moves
    /\ gameStarted = NewGame.gameStarted
    /\ gameWon = NewGame.gameWon
    /\ debugMode = NewGame.debugMode
    /\ loosePile = Pile("tableau", 0, <<>>)
    /\ position = NoPositions

HybridMakeMove(card, t) ==
    /\ Len(moves) < MaxHybridMoves
    /\ Become(makeMove(variant, Current, card, t).g)
    /\ UNCHANGED <<variant, loosePile, position>>

HybridMakeStackMove(card, t) ==
    /\ Len(moves) < MaxHybridMoves
    /\ findCardPile(piles, card) # 0
    /\ Become(makeStackMove(variant, Current, card, t, ProperStack(piles, card)).g)
    /\ UNCHANGED <<variant, loosePile, position>>

NextHybrid ==
    \/ StartNewGame
    \/ \E card \in Range(cards), t \in PileIds : HybridMakeMove(card, t)
    \/ \E card \in Range(cards), t \in PileIds : HybridMakeStackMove(card, t)
    \/ UndoMove
    \/ DrawFromStock

SpecHybrid == InitHybrid /\ [][NextHybrid]_vars

\* ------------------------------------------ a game late in a long play
\* the scores a game has when the move begins: a fresh game's, and one
\* tableau move short of the maximum, as earlier moves have left it
LateScores == {0, getMaximumScore(variant) - TableauPoints}

\* a dealt game whose score earlier moves have raised; the log holds only the
\* moves that follow
InitLate ==
    /\ variant \in Variants
    /\ \E g \in startNewGame(variant, NewGame) :
          /\ cards = g.cards
          /\ piles = g.piles
          /\ faceUp = g.faceUp
          /\ moves = g.moves
          /\ gameStarted = g.gameStarted
          /\ gameWon = g.gameWon
    /\ score \in LateScores
    /\ debugMode \in BOOLEAN
    /\ loosePile = Pile("tableau", 0, <<>>)
    /\ position = NoPositions

NextLate ==
    \/ \E enabled \in BOOLEAN : SetDebugMode(enabled)
    \/ \E card \in Range(cards), t \in PileIds : MakeMove(card, t)
    \/ \E card \in Range(cards), t \in PileIds : MakeStackMove(card, t)

SpecLate == InitLate /\ [][NextLate]_vars

\* ------------------------------------------------ a Pile outside a Game
\* A Pile is constructed with or without maxCards and is handed the card
\* objects of a standard deck, each of which lies in no pile (its position is
\* null) when it is added.
MaxCardsChoices == {<<>>} \cup {<<n>> : n \in 0..MaxCardsLimit}

InitPile ==
    /\ variant = "klondike"
    /\ cards = CreateDeck(variant)
    /\ piles = <<>>
    /\ faceUp = [c \in AllCards |-> FALSE]
    /\ score = 0
    /\ moves = <<>>
    /\ gameStarted = FALSE
    /\ gameWon = FALSE
    /\ debugMode = FALSE
    /\ loosePile \in {Pile("freecell", 0, maxCards) : maxCards \in MaxCardsChoices}
    /\ position = NoPositions

\* the card objects that lie in no pile
LooseCards == {c \in Range(cards) : position[c] = NullPosition}

\* the arrays of up to two loose cards
LooseCardArrays ==
    {<<>>} \cup {<<c>> : c \in LooseCards}
           \cup {<<c, d>> : <<c, d>> \in {x \in LooseCards \X LooseCards : x[1] # x[2]}}

\* a call either returns or throws; a throw leaves what the call had done
\* before it
PileBecomes(r) ==
    /\ loosePile' = r.pile
    /\ position' = r.position
    /\ UNCHANGED <<variant, gameVars>>

PileAddCard(card) ==
    /\ Len(loosePile.cards) < MaxPileCards
    /\ PileBecomes(Pile_addCard(loosePile, position, card))

PileAddCards(cs) ==
    /\ Len(loosePile.cards) + Len(cs) <= MaxPileCards
    /\ PileBecomes(Pile_addCards(loosePile, position, cs))

PileRemoveTopCard == PileBecomes(Pile_removeTopCard(loosePile, position))

PileRemoveTopCards(count) == PileBecomes(Pile_removeTopCards(loosePile, position, count))

PileShuffle == \E r \in Pile_shuffle(loosePile, position) : PileBecomes(r)

PileClear == PileBecomes(Pile_clear(loosePile, position))

NextPile ==
    \/ \E card \in Range(cards) : PileAddCard(card)
    \/ \E cs \in LooseCardArrays : PileAddCards(cs)
    \/ PileRemoveTopCard
    \/ \E count \in 0..MaxCount : PileRemoveTopCards(count)
    \/ PileShuffle
    \/ PileClear

SpecPile == InitPile /\ [][NextPile]_vars

\* ------------------------------------------------------------- properties
\* how often a card occurs in the piles
Occurrences(ps, c) ==
    SumSeq([p \in 1..Len(ps) |->
              Cardinality({i \in 1..Len(ps[p].cards) : ps[p].cards[i] = c})])

\* the cards startNewGame placed in some pile, for the deck order in Game.cards
DealtCards ==
    {c \in Range(cards) : Occurrences(dealInitialCards(variant, cards).piles, c) > 0}

\* the (card, targetPile) pairs a caller can name in the current state
Calls == Range(cards) \X PileIds

\* C1: after startNewGame and any sequence of makeMove, makeStackMove (with
\* the cards from `card` to the top of its pile), undoMove and drawFromStock,
\* every dealt card is in exactly one pile, exactly once.
C1_EveryDealtCardInExactlyOnePile ==
    gameStarted => \A c \in DealtCards : Occurrences(piles, c) = 1

\* no card is in two places
NoDuplicates == \A c \in Range(cards) : Occurrences(piles, c) <= 1

\* C2: whenever the game's isValidMove accepts (card, targetPile), makeMove
\* returns true and the number of cards over all piles is unchanged.
C2_ValidMoveIsMadeAndConservesCards ==
    \A call \in Calls :
        Game_isValidMove(variant, Current, call[1], call[2]) =>
            LET out == makeMove(variant, Current, call[1], call[2])
            IN /\ out.result = TRUE
               /\ TotalCards(out.g.piles) = TotalCards(piles)

\* a single-card move has just been made and the piles hold as many cards as
\* the deal placed
C2_Witness ==
    /\ Len(moves) > 0
    /\ NoDuplicates
    /\ ~moves[Len(moves)].isStack
    /\ moves[Len(moves)].fromPile # moves[Len(moves)].toPile
    /\ getTopCard(piles, moves[Len(moves)].toPile) = moves[Len(moves)].cards[1]
    /\ TotalCards(piles) = TotalCards(dealInitialCards(variant, cards).piles)

\* the source gate or the rules' isValidMove turns (card, targetPile) down
Rejected(card, t) ==
    LET src == findCardPile(piles, card)
    IN /\ src # 0
       /\ \/ ~Rules_canCardBeMovedFromPile(variant, card, src, piles, faceUp)
          \/ ~Rules_isValidMove(variant, card, t, piles, faceUp)

\* C3: when canCardBeMovedFromPile or the rules' isValidMove rejects
\* (card, targetPile), makeMove and makeStackMove return false and leave the
\* piles, the face states, the score, the move log and gameWon as they were.
C3_RejectedMoveChangesNothing ==
    \A call \in Calls :
        Rejected(call[1], call[2]) =>
            /\ makeMove(variant, Current, call[1], call[2]) = Outcome(Current, FALSE)
            /\ makeStackMove(variant, Current, call[1], call[2],
                             ProperStack(piles, call[1])) = Outcome(Current, FALSE)

\* after some moves: one call the source gate alone turns down (the target
\* would take the card) and one the target alone turns down
C3_Witness ==
    /\ Len(moves) > 0
    /\ NoDuplicates
    /\ \E call \in Calls :
          LET src == findCardPile(piles, call[1])
          IN /\ src # 0
             /\ ~Rules_canCardBeMovedFromPile(variant, call[1], src, piles, faceUp)
             /\ Rules_isValidMove(variant, call[1], call[2], piles, faceUp)
    /\ \E call \in Calls :
          LET src == findCardPile(piles, call[1])
          IN /\ src # 0
             /\ Rules_canCardBeMovedFromPile(variant, call[1], src, piles, faceUp)
             /\ ~Rules_isValidMove(variant, call[1], call[2], piles, faceUp)

\* the card is the top card of the first pile holding it
IsTopCard(card) ==
    findCardPile(piles, card) # 0 /\ getTopCard(piles, findCardPile(piles, card)) = card

\* the piles, the score and the face states of g are those of the current game
Restores(g) == g.piles = piles /\ g.score = score /\ g.faceUp = faceUp

\* C4: a successful move immediately followed by undoMove leaves every
\* pile's card sequence, the score and every card's face state as they were
\* just before the move.  Stated for makeMove of a pile's top card in a state
\* where no card is duplicated, so that the card makeMove removes is the card
\* it was given.
C4_UndoRestoresTopCardMove ==
    gameStarted /\ NoDuplicates =>
        \A call \in Calls :
            IsTopCard(call[1]) =>
                LET out == makeMove(variant, Current, call[1], call[2])
                IN out.result = TRUE => Restores(undoMove(variant, out.g).g)

\* C5: after startNewGame the piles hold DeckConfig.deckSize cards, whatever
\* the shuffle: every created card has been placed in some pile.
C5_DealPlacesEveryCard ==
    (gameStarted /\ piles = dealInitialCards(variant, cards).piles) =>
        TotalCards(piles) = DeckSize(variant)

\* C7: after every state-changing call gameWon is the value of
\* checkWinCondition on the current piles; it is false again once the
\* winning move is undone.
C7_GameWonIsCurrent ==
    gameStarted => gameWon = Game_checkWinCondition(variant, Current)

\* C9: a pile is in getValidTargets(card) exactly when the rules'
\* isValidMove(card, pile) is true, in each of the four rule sets.
C9_ValidTargetsAreTheValidMoves ==
    \A call \in Calls :
        call[2] \in Rules_getValidTargets(variant, call[1], piles, faceUp)
            <=> Rules_isValidMove(variant, call[1], call[2], piles, faceUp)

\* after a move: some card has a foundation, a tableau pile and a free cell
\* among its valid targets, and there is a pile that is not among them
C9_Witness ==
    /\ Len(moves) > 0
    /\ NoDuplicates
    /\ \E c \in Range(cards) :
          LET targets == Rules_getValidTargets(variant, c, piles, faceUp)
          IN /\ \E p \in targets : piles[p].type = "foundation"
             /\ \E p \in targets : piles[p].type = "tableau"
             /\ \E p \in targets : piles[p].type = "freecell"
             /\ \E p \in PileIds : p \notin targets

\* C10: an accepted makeStackMove with the cards from `card` to the top of
\* its pile takes those cards off the source pile, puts them on the target
\* pile in the same order, adds getMoveScore once and appends one record.
C10_StackMoveTransfersTheStack ==
    \A call \in Calls :
        findCardPile(piles, call[1]) # 0 =>
            LET src == findCardPile(piles, call[1])
                t == call[2]
                cardStack == ProperStack(piles, call[1])
                out == makeStackMove(variant, Current, call[1], t, cardStack)
            IN out.result = TRUE =>
                  /\ out.g.piles[src].cards \o cardStack = piles[src].cards
                  /\ out.g.piles[t].cards = piles[t].cards \o cardStack
                  /\ out.g.score = score + getMoveScore(t, piles)
                  /\ Len(out.g.moves) = Len(moves) + 1
                  /\ SubSeq(out.g.moves, 1, Len(moves)) = moves

\* every side effect of a move on (card, targetPile) has been applied to g
FullyApplied(g, t) ==
    /\ Len(g.moves) = Len(moves) + 1
    /\ g.score = score + getMoveScore(t, piles)
    /\ TotalCards(g.piles) = TotalCards(piles)
    /\ g.gameWon = Game_checkWinCondition(variant, g)

\* C6: a call of makeMove or makeStackMove leaves either the state before
\* the call or the state with every side effect applied, whether it returns
\* true, returns false or throws.
C6_MovesAreAllOrNothing ==
    \A call \in Calls :
        /\ LET out == makeMove(variant, Current, call[1], call[2])
           IN out.g = Current \/ FullyApplied(out.g, call[2])
        /\ \A cardStack \in StackInputs(piles, call[1]) :
              LET out == makeStackMove(variant, Current, call[1], call[2], cardStack)
              IN out.g = Current \/ FullyApplied(out.g, call[2])

\* the number of cards on the foundation pile with the given index
FoundationCount(i) == Len(piles[PileAt(piles, "foundation", i)].cards)

\* C8: checkWinCondition is true iff every condition of getWinConditions()
\* holds: with the suit foundations, iff each of them holds one card of every
\* rank; in the tarot variant, iff each suit foundation does and the two
\* major foundations jointly hold all the major arcana.
C8_WinIffDeclaredConditions ==
    LET won == Rules_checkWinCondition(variant, cards, piles)
        conditions == getWinConditions(variant)
    IN /\ won <=> \A i \in 1..Len(conditions) :
                     checkWinConditionType(variant, conditions[i], cards, piles)
       /\ ~IsTarot(variant) =>
             (won <=> \A i \in 0..(NumSuits - 1) : FoundationCount(i) = NumRanks)
       /\ IsTarot(variant) =>
             (won <=> /\ \A i \in 0..(NumSuits - 1) : FoundationCount(i) = NumRanks
                      /\ FoundationCount(NumSuits) + FoundationCount(NumSuits + 1) = NumMajor)

\* a won tarot game with major arcana on both major foundations, after
\* checkWinCondition stored its answer in gameWon
C8_Witness ==
    /\ IsTarot(variant)
    /\ gameWon
    /\ FoundationCount(NumSuits) > 0
    /\ FoundationCount(NumSuits + 1) > 0
    /\ \A i \in 0..(NumSuits - 1) : FoundationCount(i) = NumRanks

\* the games a successful move leaves behind when it starts in g: makeMove of
\* a pile's top card, or makeStackMove with the cards from `card` to the top
MovesFrom(g) ==
    {out.g : out \in
        {o \in UNION {{makeMove(variant, g, call[1], call[2]),
                       makeStackMove(variant, g, call[1], call[2],
                                     ProperStack(g.piles, call[1]))} :
                      call \in {c \in Range(g.cards) \X PileIds :
                                   /\ findCardPile(g.piles, c[1]) # 0
                                   /\ getTopCard(g.piles, findCardPile(g.piles, c[1])) = c[1]}} :
            o.result = TRUE}}

\* the piles, the score and the face states of g are those of h
SameBoard(g, h) == g.piles = h.piles /\ g.score = h.score /\ g.faceUp = h.faceUp

\* C11: after n successful moves (n = 1, 2) followed by n undoMove calls the
\* piles, the score and every card's face state are those before the first
\* move; each undoMove takes exactly the last record off the log and goes
\* back one move; undoMove on an empty log returns false and changes nothing.
C11_UndoIsRepeatableInLIFOOrder ==
    /\ moves = <<>> => undoMove(variant, Current) = Outcome(Current, FALSE)
    /\ gameStarted /\ NoDuplicates =>
          \A g1 \in MovesFrom(Current) :
              /\ undoMove(variant, g1).result = TRUE
              /\ undoMove(variant, g1).g.moves = moves
              /\ SameBoard(undoMove(variant, g1).g, Current)
              /\ \A g2 \in MovesFrom(g1) :
                    LET u1 == undoMove(variant, g2)
                        u2 == undoMove(variant, u1.g)
                    IN /\ u1.result = TRUE /\ u2.result = TRUE
                       /\ u1.g.moves = g1.moves /\ u2.g.moves = moves
                       /\ SameBoard(u1.g, g1)
                       /\ SameBoard(u2.g, Current)

\* a sequence back to front
Reverse(s) == [i \in 1..Len(s) |-> s[Len(s) + 1 - i]]

\* the stock and the waste pile of the current game
Stock == FirstPileOfType(piles, "stock")
Waste == FirstPileOfType(piles, "waste")

\* C12: in a variant with a stock, drawFromStock on a non-empty stock moves
\* exactly min(cardsPerDraw, |stock|) cards (1 in Klondike, 3 in Sawayama)
\* from the top of the stock onto the waste, one at a time, each set face-up
\* as faceUpOnDraw says, and touches nothing else; on an empty stock without
\* redealWhenEmpty (Sawayama) it changes nothing.
C12_DrawMovesMinCardsPerDrawFaceUp ==
    (gameStarted /\ usesStockWaste(variant)) =>
        \A g \in drawFromStock(variant, Current) :
            LET rules == getStockDrawingRules(variant)
                perDraw == IF variant = "klondike" THEN 1 ELSE 3
                stock == piles[Stock].cards
                n == Min(perDraw, Len(stock))
                drawn == SubSeq(stock, Len(stock) - n + 1, Len(stock))
            IN /\ rules.cardsPerDraw = perDraw
               /\ Len(stock) > 0 =>
                     /\ g.piles[Stock].cards = SubSeq(stock, 1, Len(stock) - n)
                     /\ g.piles[Waste].cards = piles[Waste].cards \o Reverse(drawn)
                     /\ \A p \in PileIds \ {Stock, Waste} : g.piles[p] = piles[p]
                     /\ \A c \in Range(drawn) : g.faceUp[c] = rules.faceUpOnDraw
                     /\ rules.faceUpOnDraw = TRUE
                     /\ \A c \in AllCards \ Range(drawn) : g.faceUp[c] = faceUp[c]
                     /\ g.score = score /\ g.moves = moves /\ g.gameWon = gameWon
               /\ (Len(stock) = 0 /\ ~rules.redealWhenEmpty) => g = Current

\* a Sawayama draw of fewer than cardsPerDraw cards has happened: one card
\* went from the stock to another pile by a move, the draw put the two cards
\* left on the waste face-up, and the stock is now empty, where a further
\* drawFromStock has nothing to do
C12_Witness ==
    /\ variant = "sawayama"
    /\ gameStarted
    /\ NoDuplicates
    /\ Len(piles[Stock].cards) = 0
    /\ Len(piles[Waste].cards) = SawayamaCardsPerDraw - 1
    /\ \A c \in Range(piles[Waste].cards) : faceUp[c]
    /\ \E i \in 1..Len(moves) : moves[i].fromPile = Stock
    /\ \A i \in 1..Len(moves) : moves[i].fromPile # Waste /\ moves[i].toPile # Waste
    /\ drawFromStock(variant, Current) = {Current}

\* C13: in Klondike, drawFromStock on an empty stock moves the whole waste
\* back to the stock: afterwards the waste is empty, the stock holds exactly
\* the cards the waste held, and every one of them is face-down.
C13_RedealTurnsTheWasteFaceDown ==
    (gameStarted /\ variant = "klondike" /\ Len(piles[Stock].cards) = 0) =>
        \A g \in drawFromStock(variant, Current) :
            /\ g.piles[Waste].cards = <<>>
            /\ Len(g.piles[Stock].cards) = Len(piles[Waste].cards)
            /\ \A c \in AllCards :
                  Occurrences(g.piles, c) = Occurrences(piles, c)
            /\ Range(g.piles[Stock].cards) = Range(piles[Waste].cards)
            /\ \A c \in Range(g.piles[Stock].cards) : g.faceUp[c] = FALSE

\* the cards of the pile of the given type and index in the piles ps
CardsAt(ps, type, index) == ps[PileAt(ps, type, index)].cards

\* C14: in Klondike, for every shuffle order, startNewGame leaves tableau
\* piles of sizes [1, 2, ..., n] (n the number of tableau piles, 7 in the
\* source) in which exactly the topmost card of each pile is face-up, a
\* stock holding all the remaining cards (24 in the source) face-down, and
\* empty foundation and waste piles.
C14_KlondikeDeal ==
    variant = "klondike" =>
        \A g \in startNewGame(variant, Current) :
            LET n == TableauPileCount(variant)
                inTableau == SumSeq(StairCounts(n))
                stock == CardsAt(g.piles, "stock", 0)
            IN /\ Cardinality(PilesOfType(g.piles, "tableau")) = NumTableau
               /\ \A i \in 0..(n - 1) :
                     LET pile == CardsAt(g.piles, "tableau", i)
                     IN /\ Len(pile) = i + 1
                        /\ \A k \in 1..Len(pile) : g.faceUp[pile[k]] <=> (k = Len(pile))
               /\ Len(stock) = DeckSize(variant) - inTableau
               /\ \A k \in 1..Len(stock) : ~g.faceUp[stock[k]]
               /\ \A p \in PilesOfType(g.piles, "foundation") \cup PilesOfType(g.piles, "waste") :
                     g.piles[p].cards = <<>>
               /\ \A c \in 1..DeckSize(variant) : Occurrences(g.piles, c) = 1

\* a Klondike game right after startNewGame dealt a deck that the shuffle
\* did reorder: the second tableau pile holds two cards, the lower one
\* face-down
C14_Witness ==
    /\ variant = "klondike"
    /\ gameStarted
    /\ cards # CreateDeck(variant)
    /\ Current \in startNewGame(variant, Current)
    /\ Len(CardsAt(piles, "tableau", 1)) = 2
    /\ ~faceUp[CardsAt(piles, "tableau", 1)[1]]
    /\ faceUp[CardsAt(piles, "tableau", 1)[2]]

\* no foundation pile of g holds fewer cards than it does in the current game
FoundationsKept(g) ==
    \A f \in PilesOfType(piles, "foundation") :
        Len(g.piles[f].cards) >= Len(piles[f].cards)

\* C15: in Klondike and Sawayama the source gate comes before the target's
\* legality: a makeMove or makeStackMove whose card lies in a foundation pile
\* returns false whatever the target, and no makeMove, makeStackMove or
\* drawFromStock leaves a foundation pile with fewer cards than it had.
C15_FoundationCardsStay ==
    (gameStarted /\ variant \in {"klondike", "sawayama"}) =>
        /\ \A call \in Calls :
              LET src == findCardPile(piles, call[1])
                  single == makeMove(variant, Current, call[1], call[2])
                  stack == makeStackMove(variant, Current, call[1], call[2],
                                         ProperStack(piles, call[1]))
              IN /\ (\E f \in PilesOfType(piles, "foundation") :
                        call[1] \in Range(piles[f].cards)) =>
                       /\ single = Outcome(Current, FALSE)
                       /\ src # 0 => stack = Outcome(Current, FALSE)
                 /\ FoundationsKept(single.g)
                 /\ src # 0 => FoundationsKept(stack.g)
        /\ \A g \in drawFromStock(variant, Current) : FoundationsKept(g)

\* a Sawayama game after a move to a foundation: the target's legality alone
\* would let the foundation's top card go to a tableau pile, and the source
\* gate turns the call down
C15_Witness ==
    /\ variant = "sawayama"
    /\ gameStarted
    /\ NoDuplicates
    /\ \E i \in 1..Len(moves) : piles[moves[i].toPile].type = "foundation"
    /\ \E f \in PilesOfType(piles, "foundation"), t \in PilesOfType(piles, "tableau") :
          /\ piles[f].cards # <<>>
          /\ Rules_isValidMove(variant, getTopCard(piles, f), t, piles, faceUp)
          /\ ~Rules_canCardBeMovedFromPile(variant, getTopCard(piles, f), f, piles, faceUp)
          /\ makeMove(variant, Current, getTopCard(piles, f), t).result = FALSE

\* the free-cell game has every free cell empty
AllFreeCellsEmpty ==
    \A p \in PilesOfType(piles, "freecell") : isEmpty(piles, p)

\* the stacks a player can pick up: the top cards of a tableau pile, as the
\* board's findCardStack collects them
Runs ==
    {findCardStack(piles, faceUp, c) :
        c \in UNION {Range(piles[p].cards) : p \in PilesOfType(piles, "tableau")}}

\* C16: in FreeCell with all free cells empty (4 in the source) and no empty
\* tableau pile, getMaxMoveableCards is the number of free cells plus one (5
\* in the source); with the target the one empty tableau pile, canMoveStack
\* accepts a run of that many cards and rejects a run one card longer.
C16_RunLimitWithAllFreeCellsEmpty ==
    (variant = "freecell" /\ gameStarted /\ AllFreeCellsEmpty) =>
        LET emptyTableau == {p \in PilesOfType(piles, "tableau") : isEmpty(piles, p)}
        IN /\ emptyTableau = {} => getMaxMoveableCards(piles) = NumFreeCells + 1
           /\ \A t \in emptyTableau :
                 emptyTableau = {t} =>
                    \A cs \in Runs :
                        /\ Len(cs) = NumFreeCells + 1 => FreeCell_canMoveStack(cs, t, piles)
                        /\ Len(cs) = NumFreeCells + 2 => ~FreeCell_canMoveStack(cs, t, piles)

\* the piles with every free cell holding the given cards
WithFreeCells(ps, content) ==
    [p \in 1..Len(ps) |->
        IF ps[p].type = "freecell" THEN [ps[p] EXCEPT !.cards = content] ELSE ps[p]]

\* C17: in the tarot variant a move onto a minor foundation (index below the
\* number of minor suits, 0-3 in the source) is legal only while the free
\* cell is empty: a rank-1 minor card onto an empty minor foundation is
\* accepted iff the free cell is empty; the legality of a move onto a major
\* foundation (the two indexes above) is the same whatever the free cell
\* holds.
C17_FreeCellBlocksMinorFoundations ==
    (variant = "tarot" /\ gameStarted) =>
        \A call \in Calls :
            LET card == call[1]
                t == call[2]
                legal == Tarot_isValidMove(card, t, piles)
            IN piles[t].type = "foundation" =>
                  /\ piles[t].index < NumSuits =>
                        /\ legal => AllFreeCellsEmpty
                        /\ (isEmpty(piles, t) /\ isMinorArcana(card) /\ CardRank(card) = 1) =>
                              (legal <=> AllFreeCellsEmpty)
                  /\ piles[t].index >= NumSuits =>
                        \A content \in {<<>>} \cup {<<c>> : c \in Range(cards)} :
                            Tarot_isValidMove(card, t, WithFreeCells(piles, content)) = legal

\* a tarot game after some moves with a card in the free cell: an ace whose
\* minor foundation is empty may not go there, while a major card may go to
\* its major foundation
C17_Witness ==
    /\ variant = "tarot"
    /\ gameStarted
    /\ NoDuplicates
    /\ Len(moves) > 0
    /\ ~AllFreeCellsEmpty
    /\ \E call \in Calls :
          /\ piles[call[2]].type = "foundation" /\ piles[call[2]].index < NumSuits
          /\ isEmpty(piles, call[2])
          /\ IsTopCard(call[1]) /\ isMinorArcana(call[1]) /\ CardRank(call[1]) = 1
          /\ ~Game_isValidMove(variant, Current, call[1], call[2])
          /\ Game_isValidMove(variant, [Current EXCEPT !.piles = WithFreeCells(piles, <<>>)],
                              call[1], call[2])
    /\ \E call \in Calls :
          /\ piles[call[2]].type = "foundation" /\ piles[call[2]].index >= NumSuits
          /\ Game_isValidMove(variant, Current, call[1], call[2])

\* C18: in the tarot variant, in every state reachable by makeMove, the
\* first major foundation (index 4 in the source) holds only major cards of
\* ranks 0, 1, ..., k from the bottom and the second (index 5) only major
\* cards of ranks max, max - 1, ... from the bottom (max = 21 in the source);
\* an empty first major foundation accepts rank 0 and nothing else, an empty
\* second one the highest major rank and nothing else.
C18_MajorFoundationsAscendAndDescend ==
    (variant = "tarot" /\ gameStarted) =>
        LET up == PileAt(piles, "foundation", NumSuits)
            down == PileAt(piles, "foundation", NumSuits + 1)
        IN /\ \A k \in 1..Len(piles[up].cards) :
                 /\ isMajorArcana(piles[up].cards[k])
                 /\ CardRank(piles[up].cards[k]) = k - 1
           /\ \A k \in 1..Len(piles[down].cards) :
                 /\ isMajorArcana(piles[down].cards[k])
                 /\ CardRank(piles[down].cards[k]) = NumMajor - k
           /\ isEmpty(piles, up) =>
                 \A c \in Range(cards) :
                     Tarot_isValidMove(c, up, piles) <=> (isMajorArcana(c) /\ CardRank(c) = 0)
           /\ isEmpty(piles, down) =>
                 \A c \in Range(cards) :
                     Tarot_isValidMove(c, down, piles)
                         <=> (isMajorArcana(c) /\ CardRank(c) = NumMajor - 1)

\* makeMove calls have put rank 0 and then rank 1 on the ascending
\* foundation, by way of the free cell
C18_Witness ==
    /\ variant = "tarot"
    /\ gameStarted
    /\ Len(moves) = MaxSingleMoves
    /\ Len(CardsAt(piles, "foundation", NumSuits)) = 2
    /\ isEmpty(piles, PileAt(piles, "foundation", NumSuits + 1))

\* C19: in Sawayama, for every state, card and empty free cell,
\* isValidFreeCellMove rejects the placement while the stock holds a card and
\* accepts it exactly when the stock is empty; the drawFromStock that empties
\* the stock turns the placements it rejected before into legal ones.
C19_FreeCellOpensWhenStockIsEmpty ==
    (variant = "sawayama" /\ gameStarted) =>
        /\ \A call \in Calls :
              (piles[call[2]].type = "freecell" /\ isEmpty(piles, call[2])) =>
                  (Sawayama_isValidFreeCellMove(call[1], call[2], piles)
                      <=> isEmpty(piles, Stock))
        /\ \A g \in drawFromStock(variant, Current) :
              (~isEmpty(piles, Stock) /\ isEmpty(g.piles, Stock)) =>
                  \A call \in Calls :
                      (piles[call[2]].type = "freecell" /\ isEmpty(piles, call[2])) =>
                          /\ ~Sawayama_isValidMove(call[1], call[2], piles)
                          /\ Sawayama_isValidMove(call[1], call[2], g.piles)

\* the draw that emptied the stock has just happened: the waste holds the
\* drawn cards, the free cell is empty and now takes a tableau's top card,
\* which it did not take with the drawn cards still on the stock
C19_Witness ==
    /\ variant = "sawayama"
    /\ gameStarted
    /\ NoDuplicates
    /\ isEmpty(piles, Stock)
    /\ ~isEmpty(piles, Waste)
    /\ \A i \in 1..Len(moves) : moves[i].fromPile # Waste /\ moves[i].toPile # Waste
    /\ \E call \in Calls :
          /\ piles[call[2]].type = "freecell" /\ isEmpty(piles, call[2])
          /\ piles[findCardPile(piles, call[1])].type = "tableau"
          /\ Game_isValidMove(variant, Current, call[1], call[2])
          /\ ~Game_isValidMove(variant,
                               [Current EXCEPT !.piles[Stock].cards = piles[Waste].cards,
                                               !.piles[Waste].cards = <<>>],
                               call[1], call[2])

\* the pile types, operators and counts of the conditions tried
ConditionPileTypes == {"foundation", "tableau", "freecell", "stock"}
ConditionOperators == {"=", "==", "!=", "<>", "<", "<=", ">", ">=", "~"}
ConditionCounts == {0, 2}

\* conditions without a pile index: the three built-in types and two custom
\* names, one of them known to no rule set
PlainConditions ==
    {Condition(type, pileType, "none") :
        type \in {"pileNotEmpty", "pileEmpty"}, pileType \in ConditionPileTypes}
    \cup {Condition("custom", "none", name) :
             name \in {"minorArcanaFreeCellBlocking", "unknown"}}

CountConditions ==
    {[Condition("pileCardCount", pileType, "none") EXCEPT !.operator = op, !.count = k] :
        pileType \in ConditionPileTypes, op \in ConditionOperators, k \in ConditionCounts}

\* the condition lists a rule set could declare for a pile type: no
\* condition, any one condition, and pairs of plain conditions and of counts
\* compared with 2
ConditionLists ==
    LET paired == PlainConditions
                  \cup {c \in CountConditions : c.operator \in {"=", ">"} /\ c.count = 2}
    IN {<<>>}
       \cup {<<c>> : c \in PlainConditions \cup CountConditions}
       \cup {<<c, d>> : c \in paired, d \in paired}

\* the count satisfies the operator
Satisfies(n, op, k) ==
    \/ op \in {"=", "=="} /\ n = k
    \/ op \in {"!=", "<>"} /\ n # k
    \/ op = "<" /\ n < k
    \/ op = "<=" /\ n <= k
    \/ op = ">" /\ n > k
    \/ op = ">=" /\ n >= k

\* what a condition without pile index says of the current piles
ConditionHolds(c, target) ==
    LET of == PilesOfType(piles, c.pileType)
    IN CASE c.type = "pileNotEmpty" -> \E p \in of : Len(piles[p].cards) > 0
         [] c.type = "pileEmpty" -> \A p \in of : Len(piles[p].cards) = 0
         [] c.type = "pileCardCount" ->
               \E p \in of : Satisfies(Len(piles[p].cards), c.operator, c.count)
         [] c.type = "custom" ->
               evaluateCustomBlockingCondition(variant, c, piles, target)

\* C20: isPileTypeBlocked(pileType, state, targetPile) is true iff at least
\* one condition listed for the pile type by getBlockingConditions() holds
\* (pileNotEmpty: some pile of the type is non-empty; pileEmpty: all piles of
\* the type are empty; pileCardCount: some pile's count satisfies the
\* operator; custom: the variant's predicate), and false when none is
\* listed; the loop does this for any list of conditions.
C20_BlockedIffSomeConditionHolds ==
    gameStarted =>
        \A target \in {0} \cup PilesOfType(piles, "foundation") :
            /\ \A pileType \in ConditionPileTypes \cup {"waste"} :
                  LET conditions == getBlockingConditions(variant, pileType)
                  IN /\ isPileTypeBlocked(variant, pileType, piles, target)
                          <=> \E i \in 1..Len(conditions) :
                                 ConditionHolds(conditions[i], target)
                     /\ conditions = <<>> =>
                           ~isPileTypeBlocked(variant, pileType, piles, target)
            /\ \A conditions \in ConditionLists :
                  anyConditionBlocks(variant, conditions, piles, target)
                      <=> \E i \in 1..Len(conditions) :
                             ConditionHolds(conditions[i], target)

\* a tarot game after a move with a card in the free cell: the minor
\* foundations are blocked by the declared custom condition, the major ones
\* and the free cell are not, and of some list of two conditions only the
\* second holds
C20_Witness ==
    /\ variant = "tarot"
    /\ gameStarted
    /\ Len(moves) > 0
    /\ ~AllFreeCellsEmpty
    /\ isPileTypeBlocked(variant, "foundation", piles, PileAt(piles, "foundation", 0))
    /\ ~isPileTypeBlocked(variant, "foundation", piles, PileAt(piles, "foundation", NumSuits))
    /\ ~isPileTypeBlocked(variant, "freecell", piles, 0)
    /\ \E conditions \in ConditionLists :
          /\ Len(conditions) = 2
          /\ conditions[1].type = "pileEmpty"
          /\ conditions[2].type = "pileCardCount"
          /\ ~evaluateBlockingCondition(variant, conditions[1], piles, 0)
          /\ evaluateBlockingCondition(variant, conditions[2], piles, 0)
          /\ anyConditionBlocks(variant, conditions, piles, 0)

\* s with x put in after its first k elements
InsertAt(s, k, x) == SubSeq(s, 1, k) \o <<x>> \o SubSeq(s, k + 1, Len(s))

\* blocking conditions no interpreter knows: an unknown type, and a card
\* count with an unknown comparison operator
UnknownBlockingConditions ==
    {Condition("pileFull", pileType, "none") : pileType \in ConditionPileTypes}
    \cup {c \in CountConditions : c.operator = "~" /\ c.count = 2}

\* the blocking lists an unknown condition is put into: up to two plain
\* conditions
KnownBlockingLists ==
    {<<>>} \cup {<<c>> : c \in PlainConditions}
    \cup {<<c, d>> : c \in PlainConditions, d \in PlainConditions}

\* win conditions of the known types, and the lists of up to two of them
KnownWinConditions ==
    {WinCondition(type, required, k) :
        type \in {"foundationComplete", "tableauEmpty"},
        required \in {"all", "any"}, k \in {0, NumRanks}}
    \cup {WinCondition("allCardsInFoundation", "none", 0), WinCondition("custom", "none", 0)}

KnownWinLists ==
    {<<>>} \cup {<<c>> : c \in KnownWinConditions}
    \cup {<<c, d>> : c \in KnownWinConditions, d \in KnownWinConditions}

\* C21: an unrecognized condition type or comparison operator counts as
\* "condition not met": in a list of blocking conditions it never blocks and
\* leaves the answer of the loop of isPileTypeBlocked as it is without it;
\* in a list of win conditions it makes the loop of checkWinCondition answer
\* false in every state, wherever it stands in the list.
C21_UnknownConditionsAreNotMet ==
    /\ \A target \in {0} \cup PilesOfType(piles, "foundation") :
          \A u \in UnknownBlockingConditions :
              /\ ~evaluateBlockingCondition(variant, u, piles, target)
              /\ \A conditions \in KnownBlockingLists :
                    \A k \in 0..Len(conditions) :
                        anyConditionBlocks(variant, InsertAt(conditions, k, u), piles, target)
                            = anyConditionBlocks(variant, conditions, piles, target)
    /\ \A conditions \in KnownWinLists :
          \A k \in 0..Len(conditions) :
              ~allWinConditionsHold(variant,
                                    InsertAt(conditions, k, WinCondition("pilesSorted", "all", 0)),
                                    cards, piles)

\* a won Klondike layout after checkWinCondition said so: the declared win
\* condition holds, some known list of blocking conditions blocks and some
\* does not
C21_Witness ==
    /\ variant = "klondike"
    /\ gameWon
    /\ allWinConditionsHold(variant, getWinConditions(variant), cards, piles)
    /\ \E conditions \in KnownBlockingLists :
          Len(conditions) = 2 /\ anyConditionBlocks(variant, conditions, piles, 0)
    /\ \E conditions \in KnownBlockingLists :
          Len(conditions) = 2 /\ ~anyConditionBlocks(variant, conditions, piles, 0)

\* C22: a Pile whose maxCards is set never holds more than maxCards cards,
\* whatever sequence of addCard, addCards, removeTopCard and removeTopCards
\* led to it, and addCard on a full pile throws and leaves the pile's cards
\* and the rejected card's position as they were
C22_MaxCardsIsNeverExceeded ==
    loosePile.maxCards # <<>> =>
        /\ Len(loosePile.cards) <= loosePile.maxCards[1]
        /\ Len(loosePile.cards) >= loosePile.maxCards[1] =>
              \A card \in LooseCards :
                  LET r == Pile_addCard(loosePile, position, card)
                  IN /\ r.threw
                     /\ r.pile.cards = loosePile.cards
                     /\ r.position[card] = position[card]

\* C23: removeTopCard on an empty pile throws and returns nothing;
\* removeTopCards(count) with count above the pile size throws without
\* removing any card, and otherwise returns the count top cards in their
\* bottom-to-top order, so that addCards of what it returned restores the
\* pile's card sequence
C23_RemovalsThrowOrReturnTheTopCardsInOrder ==
    /\ Len(loosePile.cards) = 0 =>
          LET r == Pile_removeTopCard(loosePile, position)
          IN r.threw /\ r.pile = loosePile /\ r.position = position
    /\ \A count \in 0..MaxCount :
          LET n == Len(loosePile.cards)
              r == Pile_removeTopCards(loosePile, position, count)
          IN IF count > n
             THEN r.threw /\ r.pile = loosePile /\ r.position = position
             ELSE /\ ~r.threw
                  /\ r.result = SubSeq(loosePile.cards, n - count + 1, n)
                  /\ r.pile.cards = SubSeq(loosePile.cards, 1, n - count)
                  /\ LET back == Pile_addCards(r.pile, r.position, r.result)
                     IN ~back.threw /\ back.pile.cards = loosePile.cards

\* a pile of three cards, not in deck order, gives up its two top cards and
\* takes them back
C23_Witness ==
    /\ Len(loosePile.cards) = 3
    /\ loosePile.cards[3] < loosePile.cards[2]
    /\ LET r == Pile_removeTopCards(loosePile, position, 2)
       IN /\ ~r.threw
          /\ r.result = SubSeq(loosePile.cards, 2, 3)
          /\ Len(r.pile.cards) = 1
          /\ Pile_addCards(r.pile, r.position, r.result).pile.cards = loosePile.cards

\* C24: in the variants with free cells (freecell, tarot, sawayama) every
\* free-cell pile holds at most one card in every state reached by makeMove,
\* makeStackMove with a stack that canMoveStack accepts, undoMove and
\* drawFromStock
C24_FreeCellsHoldAtMostOneCard ==
    gameStarted =>
        \A p \in PilesOfType(piles, "freecell") : Len(piles[p].cards) <= 1

\* the cards of a pile are one suit's ranks 1..k, bottom to top
IsSuitRun(cs) ==
    \A i \in 1..Len(cs) : CardRank(cs[i]) = i /\ CardSuit(cs[i]) = CardSuit(cs[1])

\* C25: in klondike, freecell and sawayama every foundation pile is an
\* ordered same-suit run (one suit, ranks 1..k bottom to top) in every state
\* reached by makeMove, makeStackMove with a stack that canMoveStack accepts,
\* undoMove and drawFromStock
C25_FoundationsAreSuitRuns ==
    (gameStarted /\ variant \in {"klondike", "freecell", "sawayama"}) =>
        \A p \in PilesOfType(piles, "foundation") : IsSuitRun(piles[p].cards)

\* C26: reset() empties cards and piles, sets the score to 0, empties the
\* move log and clears gameStarted and gameWon; startNewGame after any
\* history gives score 0, an empty move log (the next undoMove returns
\* false), gameWon false, gameStarted true and piles dealt from the fresh
\* deck alone, the same a newly constructed Game would get
C26_ResetAndNewGameCarryNothingOver ==
    /\ LET r == reset(Current)
       IN /\ r.cards = <<>>
          /\ r.piles = <<>>
          /\ r.score = 0
          /\ r.moves = <<>>
          /\ ~r.gameStarted
          /\ ~r.gameWon
    /\ startNewGame(variant, Current)
          = startNewGame(variant, [NewGame EXCEPT !.debugMode = debugMode])
    /\ \A g \in startNewGame(variant, Current) :
          /\ g.score = 0
          /\ g.moves = <<>>
          /\ ~undoMove(variant, g).result
          /\ ~g.gameWon
          /\ g.gameStarted

\* a game with a score and a move log, which both calls wipe
C26_Witness ==
    /\ gameStarted
    /\ score > 0
    /\ Len(moves) = MaxMoves
    /\ reset(Current).moves = <<>>
    /\ \A g \in startNewGame(variant, Current) : g.score = 0 /\ g.piles # piles

\* the rank-1 minor arcana cards of the deck
MinorAces == {c \in 1..(NumSuits * NumRanks) : (c - 1) % NumRanks = 0}

\* C27: in the tarot variant, for every shuffle, startNewGame leaves tableau
\* piles of the pattern's sizes with the middle pile empty ([7, 7, 7, 7, 7,
\* 0, 7, 7, 7, 7, 7] in the source), every tableau card face-up, no rank-1
\* minor card in the tableau, and each rank-1 minor card face-up in the
\* foundation its suit maps to (wands 0, cups 1, swords 2, pentacles 3)
C27_TarotDeal ==
    variant = "tarot" =>
        \A g \in startNewGame(variant, Current) :
            LET n == TableauPileCount(variant)
                sizes == TarotCounts(DeckSize(variant) - NumSuits, n)
            IN /\ \A i \in 0..(n - 1) :
                     LET dealt == CardsAt(g.piles, "tableau", i)
                     IN /\ Len(dealt) = sizes[i + 1]
                        /\ \A k \in 1..Len(dealt) :
                              g.faceUp[dealt[k]] /\ dealt[k] \notin MinorAces
               /\ \A c \in MinorAces :
                     /\ CardsAt(g.piles, "foundation", (c - 1) \div NumRanks) = <<c>>
                     /\ g.faceUp[c]

\* the configurations a caller can construct: up to NumSuits suits, NumRanks
\* ranks and one wild card, with every declared size up to the tarot deck's
DeckConfigs ==
    {DeckConfig(SubSeq(StandardSuits, 1, s), [i \in 1..r |-> i], [i \in 1..w |-> "wild"], n) :
        s \in 0..NumSuits, r \in 0..NumRanks, w \in 0..1,
        n \in 0..(NumSuits * NumRanks + NumMajor)}

SizeMatches(d) == d.deckSize = Len(d.suits) * Len(d.ranks) + Len(d.wildCards)

\* C28: deckSize = |suits| x |ranks| + |wildCards| is enforced: the
\* DeckConfig the Game is constructed with satisfies it, and validate() throws
\* for every configuration that violates it
C28_DeckSizeInvariantIsEnforced ==
    /\ SizeMatches(GameDeckConfig(variant))
    /\ \A d \in DeckConfigs : ~SizeMatches(d) => validate(d).threw

\* the scoring value of the target pile of each record of a move log
LogValues(g) ==
    [i \in 1..Len(g.moves) |-> getScoringRules(g.piles[g.moves[i].toPile].type)]

\* C29: with debug mode off the score is the sum, over the records in the
\* move log, of the scoring value of each record's target pile type (10 for
\* foundation, 1 for tableau, 0 for free cell): a successful makeMove or
\* makeStackMove adds exactly that value, undoMove subtracts the value of the
\* record it removes, rejected moves and draws leave the score unchanged, and
\* the score is never negative
C29_ScoreIsTheSumOverTheLog ==
    ~debugMode =>
        /\ score = SumSeq(LogValues(Current))
        /\ score >= 0
        /\ \A call \in Calls :
              /\ LET out == makeMove(variant, Current, call[1], call[2])
                 IN out.g.score =
                        IF out.result = TRUE
                        THEN score + getScoringRules(piles[call[2]].type)
                        ELSE score
              /\ findCardPile(piles, call[1]) # 0 =>
                    LET out == makeStackMove(variant, Current, call[1], call[2],
                                             ProperStack(piles, call[1]))
                    IN out.g.score =
                           IF out.result = TRUE
                           THEN score + getScoringRules(piles[call[2]].type)
                           ELSE score
        /\ LET out == undoMove(variant, Current)
           IN out.g.score =
                  IF moves = <<>> THEN score
                  ELSE score - getScoringRules(piles[moves[Len(moves)].toPile].type)
        /\ \A g \in drawFromStock(variant, Current) : g.score = score

\* the log of g is the current log with one more record at its end, which
\* names the moved cards, the source pile and the target pile
AppendsRecord(g, cs, from, to) ==
    /\ Len(g.moves) = Len(moves) + 1
    /\ SubSeq(g.moves, 1, Len(moves)) = moves
    /\ g.moves[Len(g.moves)].cards = cs
    /\ g.moves[Len(g.moves)].fromPile = from
    /\ g.moves[Len(g.moves)].toPile = to

\* C30: the move log changes only so: a successful makeMove or makeStackMove
\* appends exactly one record as the last element (the moved card or cards,
\* the source pile, the target pile), undoMove removes exactly the last
\* record, startNewGame and reset clear the log; a rejected move and
\* drawFromStock, a redeal included, leave the log as it is
C30_MoveLogChangesOnlyByMovesAndUndos ==
    /\ \A call \in Calls :
          /\ LET out == makeMove(variant, Current, call[1], call[2])
             IN IF out.result = TRUE
                THEN AppendsRecord(out.g, <<call[1]>>, findCardPile(piles, call[1]), call[2])
                ELSE out.g.moves = moves
          /\ findCardPile(piles, call[1]) # 0 =>
                LET out == makeStackMove(variant, Current, call[1], call[2],
                                         ProperStack(piles, call[1]))
                IN IF out.result = TRUE
                   THEN AppendsRecord(out.g, ProperStack(piles, call[1]),
                                      findCardPile(piles, call[1]), call[2])
                   ELSE out.g.moves = moves
    /\ undoMove(variant, Current).g.moves =
          IF moves = <<>> THEN moves ELSE SubSeq(moves, 1, Len(moves) - 1)
    /\ \A g \in startNewGame(variant, Current) : g.moves = <<>>
    /\ reset(Current).moves = <<>>
    /\ \A g \in drawFromStock(variant, Current) : g.moves = moves

\* a Klondike game with a move in its log, an empty stock and cards on the
\* waste, so that the next draw is a redeal, and with a move that is accepted
C30_Witness ==
    /\ gameStarted
    /\ variant = "klondike"
    /\ Len(moves) = 1
    /\ piles[Stock].cards = <<>>
    /\ piles[Waste].cards # <<>>
    /\ \A g \in drawFromStock(variant, Current) : g.piles # piles /\ g.moves = moves
    /\ \E call \in Calls : makeMove(variant, Current, call[1], call[2]).result = TRUE

\* the top card of a non-empty pile is face-up and no face-down card lies
\* above a face-up card
FaceDownBelowFaceUp(cs, fu) ==
    /\ Len(cs) > 0 => fu[cs[Len(cs)]]
    /\ \A i \in 1..Len(cs) : \A j \in (i + 1)..Len(cs) : fu[cs[i]] => fu[cs[j]]

\* C31: in Klondike, in every state reached from a deal by makeMove,
\* makeStackMove, undoMove and drawFromStock, the top card of every non-empty
\* tableau pile is face-up and within each tableau pile no face-down card
\* lies above a face-up card
C31_KlondikeTableauFaceStates ==
    (gameStarted /\ variant = "klondike") =>
        \A p \in PilesOfType(piles, "tableau") : FaceDownBelowFaceUp(piles[p].cards, faceUp)

\* C32: in Sawayama, in every state reached from a deal by any interleaving
\* of makeMove, makeStackMove, undoMove and drawFromStock, if the free cell
\* holds a card then the stock is empty
C32_OccupiedFreeCellMeansEmptyStock ==
    (gameStarted /\ variant = "sawayama") =>
        ((\E p \in PilesOfType(piles, "freecell") : piles[p].cards # <<>>)
            => piles[Stock].cards = <<>>)

\* a Sawayama game whose log holds a move that took a card from the stock
\* and, after it, the move that filled the free cell once the stock was
\* empty: the undos that follow give the stock its card back with the free
\* cell empty again
C32_Witness ==
    /\ gameStarted
    /\ variant = "sawayama"
    /\ piles[Stock].cards = <<>>
    /\ \E p \in PilesOfType(piles, "freecell") : piles[p].cards # <<>>
    /\ \E i \in 1..Len(moves) : moves[i].fromPile = Stock
    /\ piles[moves[Len(moves)].toPile].type = "freecell"
    /\ undoMove(variant, Current).result = TRUE

\* C33: in every variant and reachable state, every pile that
\* Game.getValidMoves(card) returns is a pile for which makeMove(card, pile)
\* succeeds: getValidMoves offers no target for a card that the source gate
\* forbids to move
C33_ValidMovesCanBeMade ==
    gameStarted =>
        \A call \in Calls :
            call[2] \in Game_getValidMoves(variant, Current, call[1])
                => makeMove(variant, Current, call[1], call[2]).result = TRUE

\* the cards that left the stock for the waste, or the waste for the stock,
\* between the current game and g
Transferred(g) ==
    (Range(piles[Stock].cards) \cap Range(g.piles[Waste].cards))
        \cup (Range(piles[Waste].cards) \cap Range(g.piles[Stock].cards))

\* C34: drawFromStock changes only the stock pile, the waste pile and the
\* face state of the cards transferred between them: every tableau,
\* foundation and free-cell pile, the score and the move log stay as they
\* are and |stock| + |waste| is preserved; in the variants without a stock
\* (freecell, tarot) it leaves the entire state unchanged
C34_DrawTouchesOnlyStockAndWaste ==
    \A g \in drawFromStock(variant, Current) :
        IF gameStarted /\ usesStockWaste(variant)
        THEN /\ \A p \in PileIds \ {Stock, Waste} : g.piles[p] = piles[p]
             /\ g.score = score
             /\ g.moves = moves
             /\ Len(g.piles[Stock].cards) + Len(g.piles[Waste].cards)
                   = Len(piles[Stock].cards) + Len(piles[Waste].cards)
             /\ \A c \in AllCards : g.faceUp[c] # faceUp[c] => c \in Transferred(g)
        ELSE g = Current

\* a Klondike game with a score and a move log whose stock is empty and
\* whose waste holds cards: the draw is a redeal, and it changes the piles
C34_Witness ==
    /\ gameStarted
    /\ variant = "klondike"
    /\ score > 0
    /\ Len(moves) > 0
    /\ piles[Stock].cards = <<>>
    /\ Len(piles[Waste].cards) > 1
    /\ \A g \in drawFromStock(variant, Current) : g.piles # piles

\* C35: after any sequence of addCard, addCards, removeTopCard,
\* removeTopCards, shuffle and clear, the card at index i of the pile has
\* position {pile: the pile's type, index: the pile's index, cardIndex: i},
\* every card that is not in the pile has position null, and shuffle leaves
\* the pile's set of cards unchanged
C35_PositionsFollowThePile ==
    /\ \A i \in 1..Len(loosePile.cards) :
          position[loosePile.cards[i]]
              = [pile |-> loosePile.type, index |-> loosePile.index, cardIndex |-> i - 1]
    /\ \A c \in AllCards : c \notin Range(loosePile.cards) => position[c] = NullPosition
    /\ \A r \in Pile_shuffle(loosePile, position) :
          /\ Range(r.pile.cards) = Range(loosePile.cards)
          /\ Len(r.pile.cards) = Len(loosePile.cards)

\* C36: in the classic variant the rules' isValidMove(card, target) is true
\* exactly when the target is a tableau pile that is empty while the card is
\* the king (the highest rank of the deck), or whose top card is face-up, one
\* rank above the card and of the opposite colour; or the target is a
\* foundation pile that is empty while the card is an ace, or whose top card
\* has the card's suit and the rank one below the card's; for stock, waste
\* and every other pile type it is false
C36_KlondikeIsValidMove ==
    (variant = "klondike" /\ gameStarted) =>
        \A call \in Calls :
            LET card == call[1]
                t    == call[2]
                top  == getTopCard(piles, t)
                legal ==
                    \/ /\ piles[t].type = "tableau"
                       /\ \/ Len(piles[t].cards) = 0 /\ CardRank(card) = NumRanks
                          \/ /\ Len(piles[t].cards) > 0
                             /\ faceUp[top]
                             /\ CardRank(top) = CardRank(card) + 1
                             /\ getSuitColor(top) # getSuitColor(card)
                    \/ /\ piles[t].type = "foundation"
                       /\ \/ Len(piles[t].cards) = 0 /\ CardRank(card) = 1
                          \/ /\ Len(piles[t].cards) > 0
                             /\ CardSuit(top) = CardSuit(card)
                             /\ CardRank(top) = CardRank(card) - 1
            IN Rules_isValidMove(variant, card, t, piles, faceUp) = legal

\* a classic game where a tableau pile takes a card on its face-up top, where
\* another card fits a tableau top by rank and colour and is refused because
\* that top is face-down, and where the waste refuses a card
C36_Witness ==
    /\ variant = "klondike"
    /\ gameStarted
    /\ \E call \in Calls :
          /\ piles[call[2]].type = "tableau"
          /\ Len(piles[call[2]].cards) > 0
          /\ Rules_isValidMove(variant, call[1], call[2], piles, faceUp)
    /\ \E call \in Calls :
          LET top == getTopCard(piles, call[2])
          IN /\ piles[call[2]].type = "tableau"
             /\ top # 0
             /\ ~faceUp[top]
             /\ CardRank(top) = CardRank(call[1]) + 1
             /\ getSuitColor(top) # getSuitColor(call[1])
             /\ ~Rules_isValidMove(variant, call[1], call[2], piles, faceUp)
    /\ \E call \in Calls :
          /\ piles[call[2]].type = "waste"
          /\ ~Rules_isValidMove(variant, call[1], call[2], piles, faceUp)

\* the tarot tableau rule as stated: the pile is empty, or its top card has
\* the card's suit and a rank one above or one below the card's
TarotTableauRule(card, t) ==
    \/ Len(piles[t].cards) = 0
    \/ /\ CardSuit(getTopCard(piles, t)) = CardSuit(card)
       /\ \/ CardRank(getTopCard(piles, t)) = CardRank(card) + 1
          \/ CardRank(getTopCard(piles, t)) = CardRank(card) - 1

\* C37: in the tarot variant a move onto a tableau pile is legal iff the pile
\* is empty or its top card has the moved card's suit and a rank differing by
\* exactly 1 in either direction; canMoveStack accepts a non-empty run iff its
\* bottom card satisfies that rule for the target tableau pile, whatever the
\* run's length, and rejects the empty run and every non-tableau target
C37_TarotTableauAndStackRule ==
    (variant = "tarot" /\ gameStarted) =>
        \A call \in Calls :
            LET card == call[1]
                t    == call[2]
            IN /\ piles[t].type = "tableau" =>
                     Rules_isValidMove(variant, card, t, piles, faceUp)
                         = TarotTableauRule(card, t)
               /\ \A cs \in StackInputs(piles, card) :
                     Rules_canMoveStack(variant, cs, t, piles, faceUp)
                         = /\ Len(cs) > 0
                           /\ piles[t].type = "tableau"
                           /\ TarotTableauRule(cs[1], t)

\* a tarot game where a card goes onto a tableau top one rank below it, where
\* a run of two cards is accepted while no free cell is empty, and where an
\* empty free cell refuses a run
C37_Witness ==
    /\ variant = "tarot"
    /\ gameStarted
    /\ \E call \in Calls :
          /\ piles[call[2]].type = "tableau"
          /\ getTopCard(piles, call[2]) # 0
          /\ CardRank(call[1]) = CardRank(getTopCard(piles, call[2])) + 1
          /\ Rules_isValidMove(variant, call[1], call[2], piles, faceUp)
    /\ \E call \in Calls :
          /\ findCardPile(piles, call[1]) # 0
          /\ Len(ProperStack(piles, call[1])) >= 2
          /\ Len(piles[call[2]].cards) > 0
          /\ \A p \in PilesOfType(piles, "freecell") : Len(piles[p].cards) > 0
          /\ \A p \in PilesOfType(piles, "tableau") : Len(piles[p].cards) > 0
          /\ Rules_canMoveStack(variant, ProperStack(piles, call[1]), call[2], piles, faceUp)
    /\ \E call \in Calls :
          /\ findCardPile(piles, call[1]) # 0
          /\ piles[call[2]].type = "foundation"
          /\ Len(piles[call[2]].cards) = 0
          /\ ~Rules_canMoveStack(variant, ProperStack(piles, call[1]), call[2], piles, faceUp)

====
